---- MODULE Spec2Model ----
(***************************************************************************)
(* A model of specpm: the SemVer range matcher and the flat dependency      *)
(* resolver (cli/src/lib/resolver), the package loader, the L0/L1           *)
(* verifiers, the conformance checker (checkEntity, checkCommand) and the   *)
(* registry's publish route.  Each subsystem has its own variables and its  *)
(* own specification; the variables of the other subsystems stay at their   *)
(* idle value.                                                              *)
(*                                                                         *)
(* Strings the code parses (versions, ranges) are sequences of one-         *)
(* character strings, so that parsing is computed and not assumed.          *)
(***************************************************************************)
EXTENDS Integers, Sequences, FiniteSets, TLC

VARIABLES
    \* --- SemVer range matcher
    svVersion,      \* the version string handed to satisfiesRange
    svRange,        \* the range string handed to satisfiesRange
    svResult,       \* "pending", or the boolean satisfiesRange returned
    \* --- dependency resolver (one call of resolveDependencies)
    installedSpecs, \* the catalog on disk: name -> [installed, version, deps, peers]
    rootDependencies, \* the root requirement map, in key order
    listFails,      \* whether listInstalledSpecs returns an error
    rpc,            \* "idle" | "start" | "run" | "done"
    resolved,       \* Map name -> ResolvedDependency, in insertion order
    visiting,       \* Set of names on the current recursion path
    stack,          \* frames of resolve(): [name, chain, i]
    rootIdx,        \* position of the root loop
    pending,        \* the error a resolve() call is returning, or NoError
    outcome,        \* the Result of resolveDependencies
    examined,       \* history: the requirements resolve() was called with
    \* --- package directory, verifiers and loader
    dir,            \* the package directory on disk
    l0Result,       \* what verifyL0(dir) returned
    l1Result,       \* what verifyL1(dir) returned
    loadResult,     \* what loadSpecPackage(dir) returned
    cmdResult,      \* what verifyCommand(dir) returned
    \* --- conformance check
    installed,      \* listInstalledSpecs(): the packages, in directory order
    listError,      \* listInstalledSpecs() failed
    optSpec,        \* options.spec ("" when not given)
    sourceFiles,    \* the parsed source files, in glob order
    checkResult,    \* what checkCommand returned
    \* --- registry
    packages,       \* the rows of table packages
    versions,       \* the rows of table versions
    tarballs,       \* the .tgz files under dataDir/packages
    requests,       \* the publish requests received, finished or in flight
    rateCount,      \* rateLimitMap entry of the client: requests in the window
    \* --- lint rules (one file linted against the installed packages)
    entityMatchReports,   \* what rule entity-match reported on the file
    stateCoverageReports, \* what rule state-coverage reported on the file
    \* --- `specpm install` of one package into one project
    specsDir,       \* .specpm/specs/@scope/name: whether it exists, and its files
    projectManifest, \* specpm.yaml of the project
    lockfile,       \* specpm-lock.yaml: the version it locks ("" when it has none)
    installPc,      \* the position of the install
    installOpts,    \* options.saveDev and the function called
    installResult,  \* what the install returned, or that it threw
    installBefore,  \* history: the three files as they were when the install started
    \* --- the cache of installed specs of the lint plugin
    specsCache,     \* the module-level Map: project root -> packages
    disk,           \* .specpm/specs of every project root
    cacheLog,       \* history: the calls of loadInstalledSpecs and clearSpecCache
    \* --- `specpm ci`
    ciEnv,          \* the options and what the commands ci calls return
    ciResult        \* what ciCommand returned

svVars == <<svVersion, svRange, svResult>>
resVars == <<installedSpecs, rootDependencies, listFails, rpc, resolved,
             visiting, stack, rootIdx, pending, outcome, examined>>
pkgVars == <<dir, l0Result, l1Result, loadResult, cmdResult>>
chkVars == <<installed, listError, optSpec, sourceFiles, checkResult>>
regVars == <<packages, versions, tarballs, requests, rateCount>>
lintVars == <<entityMatchReports, stateCoverageReports>>
instVars == <<specsDir, projectManifest, lockfile, installPc, installOpts, installResult,
              installBefore>>
cacheVars == <<specsCache, disk, cacheLog>>
ciVars == <<ciEnv, ciResult>>
vars == <<svVars, resVars, pkgVars, chkVars, regVars, lintVars, instVars, cacheVars, ciVars>>

\* what an action of one subsystem leaves alone
NotSv == <<resVars, pkgVars, chkVars, regVars, lintVars, instVars, cacheVars, ciVars>>
NotRes == <<svVars, pkgVars, chkVars, regVars, lintVars, instVars, cacheVars, ciVars>>
NotPkg == <<svVars, resVars, chkVars, regVars, lintVars, instVars, cacheVars, ciVars>>
NotChk == <<svVars, resVars, pkgVars, regVars, lintVars, instVars, cacheVars, ciVars>>
NotReg == <<svVars, resVars, pkgVars, chkVars, lintVars, instVars, cacheVars, ciVars>>
NotLint == <<svVars, resVars, pkgVars, regVars, instVars, cacheVars, ciVars>>
NotInst == <<svVars, resVars, pkgVars, chkVars, regVars, lintVars, cacheVars, ciVars>>
NotCache == <<svVars, resVars, pkgVars, chkVars, regVars, lintVars, instVars, ciVars>>
NotCi == <<svVars, resVars, pkgVars, chkVars, regVars, lintVars, instVars, cacheVars>>

-----------------------------------------------------------------------------
(* Strings as sequences of characters *)

Digits == <<"0", "1", "2", "3", "4", "5", "6", "7", "8", "9">>

IsDigit(c) == \E d \in 1..10 : Digits[d] = c

DigitValue(c) == (CHOOSE d \in 1..10 : Digits[d] = c) - 1

\* Number.prototype.toString for a natural number
RECURSIVE NumToStr(_)
NumToStr(n) ==
    IF n < 10 THEN <<Digits[n + 1]>>
    ELSE NumToStr(n \div 10) \o <<Digits[(n % 10) + 1]>>

\* parseInt of a run of decimal digits
RECURSIVE ParseInt(_)
ParseInt(s) ==
    IF Len(s) = 0 THEN 0
    ELSE 10 * ParseInt(SubSeq(s, 1, Len(s) - 1)) + DigitValue(s[Len(s)])

\* the index of the last character of the digit run \d+ starting at i
\* (i - 1 when s[i] is no digit)
RECURSIVE DigitRunEnd(_, _)
DigitRunEnd(s, i) ==
    IF i <= Len(s) /\ IsDigit(s[i]) THEN DigitRunEnd(s, i + 1) ELSE i - 1

CharAt(s, i) == IF i >= 1 /\ i <= Len(s) THEN s[i] ELSE ""

Drop(s, n) == SubSeq(s, n + 1, Len(s))

StartsWith(s, p) == Len(s) >= Len(p) /\ SubSeq(s, 1, Len(p)) = p

-----------------------------------------------------------------------------
(* SemVer range matcher *)

NoMatch == [ok |-> FALSE, v |-> <<0, 0, 0>>, end |-> 0]

\* version.match(/^(\d+)\.(\d+)\.(\d+)/): the three numbers and where the
\* match ends; the regex is not anchored at the end
MatchSemVer(s) ==
    LET e1 == DigitRunEnd(s, 1)
        e2 == DigitRunEnd(s, e1 + 2)
        e3 == DigitRunEnd(s, e2 + 2)
    IN  IF /\ e1 >= 1
           /\ CharAt(s, e1 + 1) = "."
           /\ e2 >= e1 + 2
           /\ CharAt(s, e2 + 1) = "."
           /\ e3 >= e2 + 2
        THEN [ok |-> TRUE,
              v |-> <<ParseInt(SubSeq(s, 1, e1)),
                      ParseInt(SubSeq(s, e1 + 2, e2)),
                      ParseInt(SubSeq(s, e2 + 2, e3))>>,
              end |-> e3]
        ELSE NoMatch

parseSemVer(version) == MatchSemVer(version)

\* /^\d+\.\d+\.\d+$/.test(s)
IsExactVersion(s) == MatchSemVer(s).ok /\ MatchSemVer(s).end = Len(s)

\* range.match(/^<op>(\d+\.\d+\.\d+)$/)
MatchOp(range, op) == StartsWith(range, op) /\ IsExactVersion(Drop(range, Len(op)))

OpVersion(range, op) == parseSemVer(Drop(range, Len(op))).v

compareVer(a, b) ==
    IF a[1] # b[1] THEN a[1] - b[1]
    ELSE IF a[2] # b[2] THEN a[2] - b[2]
    ELSE IF a[3] # b[3] THEN a[3] - b[3]
    ELSE 0

caretSatisfies_MajorOnly(ver, r) ==
    ver[1] = r[1] /\ compareVer(ver, r) >= 0

caretSatisfies(ver, r) ==
    IF r[1] > 0 THEN ver[1] = r[1] /\ compareVer(ver, r) >= 0
    ELSE IF r[2] > 0 THEN ver[1] = 0 /\ ver[2] = r[2] /\ compareVer(ver, r) >= 0
    ELSE ver[1] = 0 /\ ver[2] = 0 /\ ver[3] = r[3]

satisfiesRange(version, range) ==
    LET parsed == parseSemVer(version)
        ver == parsed.v
    IN  IF ~parsed.ok THEN FALSE
        ELSE IF range = <<"*">> \/ range = <<"l", "a", "t", "e", "s", "t">> THEN TRUE
        ELSE IF IsExactVersion(range)
            THEN LET r == parseSemVer(range).v
                 IN  ver[1] = r[1] /\ ver[2] = r[2] /\ ver[3] = r[3]
        ELSE IF MatchOp(range, <<"^">>) THEN caretSatisfies(ver, OpVersion(range, <<"^">>))
        ELSE IF MatchOp(range, <<"~">>)
            THEN LET r == OpVersion(range, <<"~">>)
                 IN  ver[1] = r[1] /\ ver[2] = r[2] /\ ver[3] >= r[3]
        ELSE IF MatchOp(range, <<">", "=">>)
            THEN compareVer(ver, OpVersion(range, <<">", "=">>)) >= 0
        ELSE IF MatchOp(range, <<">">>)
            THEN compareVer(ver, OpVersion(range, <<">">>)) > 0
        ELSE IF MatchOp(range, <<"<", "=">>)
            THEN compareVer(ver, OpVersion(range, <<"<", "=">>)) <= 0
        ELSE IF MatchOp(range, <<"<">>)
            THEN compareVer(ver, OpVersion(range, <<"<">>)) < 0
        ELSE FALSE

-----------------------------------------------------------------------------
(* Inputs of the range matcher *)

\* the largest small component of a version; 10 is added as a two-digit one
MaxNum == 1

Components == (0..MaxNum) \cup {10}

\* "M.m.p"
PlainVersion(M, m, p) ==
    NumToStr(M) \o <<".">> \o NumToStr(m) \o <<".">> \o NumToStr(p)

\* the prerelease suffixes tried: none, "-b", "-1"
PreSuffixes == {<<>>, <<"-", "b">>, <<"-", "1">>}

PlainVersions == {PlainVersion(M, m, p) : M \in Components, m \in Components, p \in Components}

\* the valid versions: major.minor.patch with an optional -prerelease
ValidVersions == {v \o s : v \in PlainVersions, s \in PreSuffixes}

RangeOps == {<<>>, <<"^">>, <<"~">>, <<">", "=">>, <<">">>, <<"<", "=">>, <<"<">>}

RangeStrings ==
    {op \o v : op \in RangeOps, v \in PlainVersions}
        \cup {<<"*">>, <<"l", "a", "t", "e", "s", "t">>, <<"^">>, <<"1", ".", "0">>, <<>>}

\* strings that are no version
InvalidVersions == {<<>>, <<"1", ".", "0">>, <<"v", "1", ".", "0", ".", "0">>}

SvIdle == /\ svVersion = <<>>
          /\ svRange = <<>>
          /\ svResult = "idle"

SvInit ==
    /\ svVersion \in ValidVersions \cup InvalidVersions
    /\ svRange \in RangeStrings \cup ValidVersions
    /\ svResult = "pending"

\* one call satisfiesRange(svVersion, svRange)
SatisfiesCall ==
    /\ svResult = "pending"
    /\ svResult' = IF satisfiesRange(svVersion, svRange) THEN "true" ELSE "false"
    /\ UNCHANGED <<svVersion, svRange>>
    /\ UNCHANGED NotSv

-----------------------------------------------------------------------------
(* Dependency resolver: resolveDependencies(rootDependencies, projectRoot) *)

Pkgs == {"a", "b", "c"}

KeyOrder == <<"a", "b", "c">>
ReverseKeyOrder == <<"c", "b", "a">>

V100 == <<"1", ".", "0", ".", "0">>
V123 == <<"1", ".", "2", ".", "3">>
V200 == <<"2", ".", "0", ".", "0">>

Caret1 == <<"^">> \o V100
Caret2 == <<"^">> \o V200

\* the ranges a requirement may carry
Ranges == {Caret1, Caret2}

NoError == [type |-> "none", text |-> "", name |-> "", version |-> <<>>,
            range |-> <<>>, chain |-> <<>>]

\* a ResolutionError; the message is kept as its template (text) and the
\* values interpolated into it
ResolutionError(type, text, name, version, range, chain) ==
    [type |-> type, text |-> text, name |-> name, version |-> version,
     range |-> range, chain |-> chain]

NoOutcome == [ok |-> FALSE, done |-> FALSE, value |-> <<>>, error |-> NoError]

\* installed.get(name): undefined for a package that is not installed
IsInstalled(name) == installedSpecs[name].installed

\* a manifest read as declaring no dependency
ManifestDeps_None(name) == <<>>

\* spec.manifest.dependencies ?? {}
ManifestDeps(name) == installedSpecs[name].deps

HasResolved(name) == \E i \in 1..Len(resolved) : resolved[i].name = name

ResolvedVersion(name) ==
    resolved[CHOOSE i \in 1..Len(resolved) : resolved[i].name = name].version

\* resolved.set(name, entry): a Map keeps one entry per key, at the place
\* where the key was first inserted
MapSet(m, entry) ==
    IF \E i \in 1..Len(m) : m[i].name = entry.name
    THEN [i \in 1..Len(m) |-> IF m[i].name = entry.name THEN entry ELSE m[i]]
    ELSE Append(m, entry)

\* visiting.delete(name) on the way out of resolve()
LeaveVisiting_Kept(name) == visiting

LeaveVisiting(name) == visiting \ {name}

\* resolve() with the memo test placed before the cycle test
resolveEntry_MemoFirst(name, range, chain) ==
    IF HasResolved(name)
    THEN IF ~satisfiesRange(ResolvedVersion(name), range)
         THEN [kind |-> "error",
               error |-> ResolutionError("version-conflict", "Version conflict for : resolved  does not satisfy ",
                                         name, ResolvedVersion(name), range, <<>>)]
         ELSE [kind |-> "memo", error |-> NoError]
    ELSE IF ~IsInstalled(name)
    THEN [kind |-> "error",
          error |-> ResolutionError("not-found", "Package not found: ", name, <<>>, <<>>, <<>>)]
    ELSE IF ~satisfiesRange(installedSpecs[name].version, range)
    THEN [kind |-> "error",
          error |-> ResolutionError("version-conflict", "Installed @ does not satisfy required range ",
                                    name, installedSpecs[name].version, range, <<>>)]
    ELSE [kind |-> "enter", error |-> NoError]

\* resolve() that does not test the range of a package it has resolved
resolveEntry_NoRecheck(name, range, chain) ==
    IF name \in visiting
    THEN [kind |-> "error",
          error |-> ResolutionError("circular-dependency", "Circular dependency detected: ",
                                    name, <<>>, <<>>, chain \o <<name>>)]
    ELSE IF HasResolved(name)
    THEN [kind |-> "memo", error |-> NoError]
    ELSE IF ~IsInstalled(name)
    THEN [kind |-> "error",
          error |-> ResolutionError("not-found", "Package not found: ", name, <<>>, <<>>, <<>>)]
    ELSE IF ~satisfiesRange(installedSpecs[name].version, range)
    THEN [kind |-> "error",
          error |-> ResolutionError("version-conflict", "Installed @ does not satisfy required range ",
                                    name, installedSpecs[name].version, range, <<>>)]
    ELSE [kind |-> "enter", error |-> NoError]

\* resolve() without the early return for a package it has resolved
resolveEntry_NoMemo(name, range, chain) ==
    IF name \in visiting
    THEN [kind |-> "error",
          error |-> ResolutionError("circular-dependency", "Circular dependency detected: ",
                                    name, <<>>, <<>>, chain \o <<name>>)]
    ELSE IF ~IsInstalled(name)
    THEN [kind |-> "error",
          error |-> ResolutionError("not-found", "Package not found: ", name, <<>>, <<>>, <<>>)]
    ELSE IF ~satisfiesRange(installedSpecs[name].version, range)
    THEN [kind |-> "error",
          error |-> ResolutionError("version-conflict", "Installed @ does not satisfy required range ",
                                    name, installedSpecs[name].version, range, <<>>)]
    ELSE [kind |-> "enter", error |-> NoError]

\* the body of resolve(name, range, chain) up to the loop over the
\* dependencies: the error it returns, "memo" for the early return null, or
\* "enter" when the package is committed and its dependencies are walked
resolveEntry(name, range, chain) ==
    IF name \in visiting
    THEN [kind |-> "error",
          error |-> ResolutionError("circular-dependency", "Circular dependency detected: ",
                                    name, <<>>, <<>>, chain \o <<name>>)]
    ELSE IF HasResolved(name)
    THEN IF ~satisfiesRange(ResolvedVersion(name), range)
         THEN [kind |-> "error",
               error |-> ResolutionError("version-conflict", "Version conflict for : resolved  does not satisfy ",
                                         name, ResolvedVersion(name), range, <<>>)]
         ELSE [kind |-> "memo", error |-> NoError]
    ELSE IF ~IsInstalled(name)
    THEN [kind |-> "error",
          error |-> ResolutionError("not-found", "Package not found: ", name, <<>>, <<>>, <<>>)]
    ELSE IF ~satisfiesRange(installedSpecs[name].version, range)
    THEN [kind |-> "error",
          error |-> ResolutionError("version-conflict", "Installed @ does not satisfy required range ",
                                    name, installedSpecs[name].version, range, <<>>)]
    ELSE [kind |-> "enter", error |-> NoError]

\* what one call resolve(name, range, chain) does to the resolver's state
\* before it loops over the dependencies; frames is the caller's stack
Call(name, range, chain, frames) ==
    LET r == resolveEntry(name, range, chain)
    IN  /\ examined' = Append(examined,
                              [name |-> name, range |-> range, chain |-> chain,
                               onPath |-> name \in visiting,
                               committed |-> HasResolved(name),
                               kind |-> r.kind, error |-> r.error])
        /\ pending' = r.error
        /\ IF r.kind = "enter"
           THEN /\ visiting' = visiting \cup {name}
                /\ resolved' = MapSet(resolved,
                                      [name |-> name, version |-> installedSpecs[name].version])
                /\ stack' = Append(frames, [name |-> name, chain |-> chain, i |-> 1])
           ELSE /\ stack' = frames
                /\ UNCHANGED <<visiting, resolved>>

Top == stack[Len(stack)]

\* listInstalledSpecs and the build of the installed map
Start ==
    /\ rpc = "start"
    /\ IF listFails
       THEN /\ rpc' = "done"
            /\ outcome' = [ok |-> FALSE, done |-> TRUE, value |-> <<>>,
                           error |-> ResolutionError("not-found", "Failed to list installed specs",
                                                     "", <<>>, <<>>, <<>>)]
       ELSE /\ rpc' = "run"
            /\ UNCHANGED outcome
    /\ UNCHANGED <<installedSpecs, rootDependencies, listFails, resolved, visiting,
                   stack, rootIdx, pending, examined>>
    /\ UNCHANGED NotRes

\* the root loop calls resolve(name, range, [])
RootCall ==
    /\ rpc = "run"
    /\ stack = <<>>
    /\ pending = NoError
    /\ rootIdx <= Len(rootDependencies)
    /\ Call(rootDependencies[rootIdx].name, rootDependencies[rootIdx].range, <<>>, stack)
    /\ rootIdx' = rootIdx + 1
    /\ UNCHANGED <<installedSpecs, rootDependencies, listFails, rpc, outcome>>
    /\ UNCHANGED NotRes

\* the loop of the innermost resolve() calls resolve(depName, depRange, [...chain, name])
DepCall ==
    /\ rpc = "run"
    /\ stack # <<>>
    /\ pending = NoError
    /\ Top.i <= Len(ManifestDeps(Top.name))
    /\ LET dep == ManifestDeps(Top.name)[Top.i]
       IN  Call(dep.name, dep.range, Top.chain \o <<Top.name>>,
                [stack EXCEPT ![Len(stack)].i = Top.i + 1])
    /\ UNCHANGED <<installedSpecs, rootDependencies, listFails, rpc, rootIdx, outcome>>
    /\ UNCHANGED NotRes

\* a resolve() whose loop is over: visiting.delete(name); return null
ReturnOk ==
    /\ rpc = "run"
    /\ stack # <<>>
    /\ pending = NoError
    /\ Top.i > Len(ManifestDeps(Top.name))
    /\ visiting' = LeaveVisiting(Top.name)
    /\ stack' = SubSeq(stack, 1, Len(stack) - 1)
    /\ UNCHANGED <<installedSpecs, rootDependencies, listFails, rpc, resolved,
                   rootIdx, pending, outcome, examined>>
    /\ UNCHANGED NotRes

\* a resolve() whose dependency returned an error: visiting.delete(name); return error
ReturnError ==
    /\ rpc = "run"
    /\ stack # <<>>
    /\ pending # NoError
    /\ visiting' = LeaveVisiting(Top.name)
    /\ stack' = SubSeq(stack, 1, Len(stack) - 1)
    /\ UNCHANGED <<installedSpecs, rootDependencies, listFails, rpc, resolved,
                   rootIdx, pending, outcome, examined>>
    /\ UNCHANGED NotRes

\* { ok: false, error: err }
Failure_Partial(error) == [ok |-> FALSE, done |-> TRUE, value |-> resolved, error |-> error]
Failure(error) == [ok |-> FALSE, done |-> TRUE, value |-> <<>>, error |-> error]

\* the root loop sees the error: return { ok: false, error }
FinishError ==
    /\ rpc = "run"
    /\ stack = <<>>
    /\ pending # NoError
    /\ rpc' = "done"
    /\ outcome' = Failure(pending)
    /\ UNCHANGED <<installedSpecs, rootDependencies, listFails, resolved, visiting,
                   stack, rootIdx, pending, examined>>
    /\ UNCHANGED NotRes

\* the root loop is over: return { ok: true, value: Array.from(resolved.values()) }
FinishOk ==
    /\ rpc = "run"
    /\ stack = <<>>
    /\ pending = NoError
    /\ rootIdx > Len(rootDependencies)
    /\ rpc' = "done"
    /\ outcome' = [ok |-> TRUE, done |-> TRUE, value |-> resolved, error |-> NoError]
    /\ UNCHANGED <<installedSpecs, rootDependencies, listFails, resolved, visiting,
                   stack, rootIdx, pending, examined>>
    /\ UNCHANGED NotRes

-----------------------------------------------------------------------------
(* Inputs of the resolver *)

\* the number of requirements in the root map and the manifests together
MaxEdges == 4

Sources == Pkgs \cup {"root"}

EdgeSets == {E \in SUBSET (Sources \X Pkgs) : Cardinality(E) <= MaxEdges}

\* the requirements of src as a map in key order, or in the reverse order
RequirementMap(src, E, rng, rev) ==
    LET order == IF rev THEN ReverseKeyOrder ELSE KeyOrder
        IsTarget(t) == <<src, t>> \in E
        names == SelectSeq(order, IsTarget)
    IN  [i \in 1..Len(names) |-> [name |-> names[i], range |-> rng[<<src, names[i]>>]]]

CatalogVersion(name) == IF name = "a" THEN V100 ELSE IF name = "b" THEN V123 ELSE V200

ResIdle ==
    /\ installedSpecs = <<>>
    /\ rootDependencies = <<>>
    /\ listFails = FALSE
    /\ rpc = "idle"
    /\ resolved = <<>>
    /\ visiting = {}
    /\ stack = <<>>
    /\ rootIdx = 1
    /\ pending = NoError
    /\ outcome = NoOutcome
    /\ examined = <<>>

ResInit ==
    /\ \E E \in EdgeSets, rev \in BOOLEAN, cInstalled \in BOOLEAN :
         \E rng \in [E -> Ranges] :
            /\ installedSpecs =
                 [n \in Pkgs |-> [installed |-> (n # "c" \/ cInstalled),
                                  version |-> CatalogVersion(n),
                                  deps |-> RequirementMap(n, E, rng, rev),
                                  peers |-> <<>>]]
            /\ rootDependencies = RequirementMap("root", E, rng, rev)
    /\ listFails \in BOOLEAN
    /\ rpc = "start"
    /\ resolved = <<>>
    /\ visiting = {}
    /\ stack = <<>>
    /\ rootIdx = 1
    /\ pending = NoError
    /\ outcome = NoOutcome
    /\ examined = <<>>

\* the diamonds (a package required along two paths), alone, above a chain,
\* and next to a cycle, and the cycle through the three packages
Diamonds ==
    {{<<"root", "a">>, <<"root", "b">>, <<"a", "b">>},
     {<<"root", "a">>, <<"a", "b">>, <<"a", "c">>, <<"b", "c">>},
     {<<"root", "a">>, <<"root", "b">>, <<"a", "a">>, <<"a", "b">>},
     {<<"root", "a">>, <<"a", "b">>, <<"b", "c">>, <<"c", "a">>}}

\* the requirement graphs a resolution is started on: every graph of the
\* smaller sizes, cycles included, and the diamonds
TerminationGraphs == {E \in EdgeSets : Cardinality(E) <= MaxEdges - 2} \cup Diamonds

\* resolveDependencies(rootDependencies, projectRoot) is called in a project
\* with every package installed and every range '*'
Invoke ==
    /\ rpc = "idle"
    /\ \E E \in TerminationGraphs, rev \in BOOLEAN :
         LET rng == [edge \in E |-> <<"*">>]
         IN  /\ installedSpecs' =
                  [n \in Pkgs |-> [installed |-> TRUE,
                                   version |-> CatalogVersion(n),
                                   deps |-> RequirementMap(n, E, rng, rev),
                                   peers |-> <<>>]]
             /\ rootDependencies' = RequirementMap("root", E, rng, rev)
    /\ rpc' = "start"
    /\ UNCHANGED <<listFails, resolved, visiting, stack, rootIdx, pending, outcome, examined>>
    /\ UNCHANGED NotRes

\* manifest.peerDependencies of a catalog entry
ManifestPeers(name) == installedSpecs[name].peers

\* the catalogs with peerDependencies: package a may name b or c as its peer,
\* and the manifests and the root map hold two requirements less
PeerInit ==
    /\ \E E \in {F \in EdgeSets : Cardinality(F) <= MaxEdges - 2}, cInstalled \in BOOLEAN :
         \E rng \in [E -> Ranges] :
            \E peersOfA \in {<<>>} \cup {<<[name |-> t, range |-> r]>> : t \in {"b", "c"}, r \in Ranges} :
                /\ installedSpecs =
                     [n \in Pkgs |-> [installed |-> (n # "c" \/ cInstalled),
                                      version |-> CatalogVersion(n),
                                      deps |-> RequirementMap(n, E, rng, FALSE),
                                      peers |-> IF n = "a" THEN peersOfA ELSE <<>>]]
                /\ rootDependencies = RequirementMap("root", E, rng, FALSE)
    /\ listFails = FALSE
    /\ rpc = "start"
    /\ resolved = <<>>
    /\ visiting = {}
    /\ stack = <<>>
    /\ rootIdx = 1
    /\ pending = NoError
    /\ outcome = NoOutcome
    /\ examined = <<>>

-----------------------------------------------------------------------------
(* A package directory: spec.yaml and the files it names *)

\* a value of the parsed manifest: absent, a number, a string or a list
Absent == [t |-> "absent", s |-> "", items |-> <<>>]
Num == [t |-> "num", s |-> "", items |-> <<>>]
Str(path) == [t |-> "str", s |-> path, items |-> <<>>]
List(items) == [t |-> "list", s |-> "", items |-> items]

\* an item of a list: a path (escapes: it starts with "..") or a number
PathItem(p) == [isStr |-> TRUE, v |-> p, escapes |-> FALSE]
EscapingItem(p) == [isStr |-> TRUE, v |-> p, escapes |-> TRUE]
NumItem == [isStr |-> FALSE, v |-> "", escapes |-> FALSE]

\* the content of a file: missing, text that does not parse, JSON/YAML null,
\* or a parsed document
Missing == [k |-> "missing", title |-> "", id |-> "", states |-> {}, targets |-> {}, constraints |-> <<>>]
Garbage == [k |-> "garbage", title |-> "", id |-> "", states |-> {}, targets |-> {}, constraints |-> <<>>]
NullDoc == [k |-> "null", title |-> "", id |-> "", states |-> {}, targets |-> {}, constraints |-> <<>>]
Text == [k |-> "text", title |-> "", id |-> "", states |-> {}, targets |-> {}, constraints |-> <<>>]
EntityDoc(title, id) ==
    [k |-> "entity", title |-> title, id |-> id, states |-> {}, targets |-> {}, constraints |-> <<>>]
\* a state machine: its id, its state names and the targets of its transitions
MachineDoc(id, states, targets) ==
    [k |-> "machine", title |-> "", id |-> id, states |-> states, targets |-> targets, constraints |-> <<>>]
ConstraintsDoc(cs) ==
    [k |-> "constraints", title |-> "", id |-> "", states |-> {}, targets |-> {}, constraints |-> cs]

\* one entry of the constraints list; "" stands for a field that is not set
Constraint(id, rest, type, hasCheck, entity, state) ==
    [null |-> FALSE, id |-> id, rest |-> rest, type |-> type, hasCheck |-> hasCheck,
     entity |-> entity, state |-> state]
NullConstraint ==
    [null |-> TRUE, id |-> "", rest |-> FALSE, type |-> "", hasCheck |-> FALSE,
     entity |-> "", state |-> ""]

Issue(severity, code, file) == [severity |-> severity, code |-> code, file |-> file]

NotRun == [ran |-> FALSE, threw |-> FALSE, passed |-> FALSE, issues |-> <<>>]
Threw == [ran |-> TRUE, threw |-> TRUE, passed |-> FALSE, issues |-> <<>>]

hasErrors(issues) == \E i \in 1..Len(issues) : issues[i].severity = "error"

\* { level: 0, passed: false, issues, timestamp }
ReturnedFailed(issues) ==
    [ran |-> TRUE, threw |-> FALSE, passed |-> FALSE, issues |-> issues]

\* { level, passed: !hasErrors, issues, timestamp }
Returned_WarningsFail(issues) ==
    [ran |-> TRUE, threw |-> FALSE, passed |-> issues = <<>>, issues |-> issues]
Returned(issues) ==
    [ran |-> TRUE, threw |-> FALSE, passed |-> ~hasErrors(issues), issues |-> issues]

RECURSIVE Flatten(_)
Flatten(ss) == IF Len(ss) = 0 THEN <<>> ELSE ss[1] \o Flatten(Tail(ss))

\* fileExists(join(directory, path))
fileExists(d, path) == d.files[path].k # "missing"

\* manifest.<field> ?? []
OrEmpty(field) == IF field.t = "absent" THEN <<>> ELSE field.items

\* [...x] throws a TypeError when x is a number
Spreadable(field) == field.t \in {"absent", "list"}

\* the errors ajv reports for the manifest against specYamlSchema: one per
\* violated keyword
ListErrors(field, path) ==
    IF field.t = "absent" THEN <<>>
    ELSE IF field.t # "list" THEN <<path>>
    ELSE Flatten([i \in 1..Len(field.items) |->
                    IF field.items[i].isStr THEN <<>> ELSE <<path>>])

SchemaErrors(d) ==
    (IF d.name = "absent" THEN <<"/">> ELSE IF d.name = "bad" THEN <<"/name">> ELSE <<>>)
    \o (IF d.scalarsOk THEN <<>> ELSE <<"/">>)
    \o ListErrors(d.entities, "/entities")
    \o ListErrors(d.states, "/states")
    \o (IF d.constraints.t \in {"absent", "str"} THEN <<>> ELSE <<"/constraints">>)
    \o ListErrors(d.docs, "/docs")
    \o ListErrors(d.priority, "/context/priority")

\* [...entities, ...states, ...docs, ...(constraints ? [constraints] : [])]
allPaths(d) ==
    OrEmpty(d.entities) \o OrEmpty(d.states) \o OrEmpty(d.docs)
        \o (IF d.constraints.t = "absent" THEN <<>>
            ELSE IF d.constraints.t = "str" THEN <<PathItem(d.constraints.s)>>
            ELSE <<NumItem>>)

\* building allPaths and join(directory, filePath) throw a TypeError for a
\* field that is no list and for an item that is no string
PathsThrow(d) ==
    \/ ~Spreadable(d.entities) \/ ~Spreadable(d.states) \/ ~Spreadable(d.docs)
    \/ \E i \in 1..Len(allPaths(d)) : ~allPaths(d)[i].isStr

-----------------------------------------------------------------------------
(* verifyL0 *)

\* the loop over the constraints of verifyL0: the issues pushed until an
\* entry that is null makes constraint.id throw inside the try block
RECURSIVE L0ConstraintIssues(_, _, _)
L0ConstraintIssues(cs, i, file) ==
    IF i > Len(cs) THEN <<>>
    ELSE IF cs[i].null THEN <<Issue("error", "L0-CONSTRAINT-PARSE", file)>>
    ELSE (IF cs[i].id = "" \/ ~cs[i].rest \/ cs[i].type = ""
          THEN <<Issue("error", "L0-CONSTRAINT-FIELDS", file)>> ELSE <<>>)
         \o (IF cs[i].id # "" /\ \E j \in 1..(i - 1) : cs[j].id = cs[i].id
             THEN <<Issue("error", "L0-CONSTRAINT-DUPLICATE", file)>> ELSE <<>>)
         \o L0ConstraintIssues(cs, i + 1, file)

L0SchemaIssues(d) ==
    [i \in 1..Len(SchemaErrors(d)) |-> Issue("error", "L0-SCHEMA-INVALID", "spec.yaml")]

L0NameIssues(d) ==
    IF d.name = "bad" THEN <<Issue("error", "L0-NAME-FORMAT", "spec.yaml")>> ELSE <<>>

L0MissingIssues(d) ==
    Flatten([i \in 1..Len(allPaths(d)) |->
        IF fileExists(d, allPaths(d)[i].v) THEN <<>>
        ELSE <<Issue("error", "L0-FILE-MISSING", allPaths(d)[i].v)>>])

L0EntityIssues(d) ==
    Flatten([i \in 1..Len(OrEmpty(d.entities)) |->
        LET path == OrEmpty(d.entities)[i].v
        IN  IF d.files[path].k \in {"garbage", "null"}
            THEN <<Issue("error", "L0-ENTITY-INVALID", path)>> ELSE <<>>])

L0StateIssues(d) ==
    Flatten([i \in 1..Len(OrEmpty(d.states)) |->
        LET path == OrEmpty(d.states)[i].v
        IN  IF d.files[path].k = "garbage"
            THEN <<Issue("error", "L0-STATE-INVALID", path)>> ELSE <<>>])

L0ConstraintsFileIssues(d) ==
    IF d.constraints.t = "absent" \/ ~fileExists(d, d.constraints.s) THEN <<>>
    ELSE IF d.files[d.constraints.s].k \in {"garbage", "null"}
    THEN <<Issue("error", "L0-CONSTRAINT-PARSE", d.constraints.s)>>
    ELSE L0ConstraintIssues(d.files[d.constraints.s].constraints, 1, d.constraints.s)

verifyL0(d) ==
    IF d.manifest = "missing"
    THEN ReturnedFailed(<<Issue("error", "L0-YAML-MISSING", "spec.yaml")>>)
    ELSE IF d.manifest \in {"unparsable", "null", "scalar"}
    THEN ReturnedFailed(<<Issue("error", "L0-YAML-PARSE", "spec.yaml")>>)
    ELSE IF PathsThrow(d) THEN Threw
    ELSE Returned(L0SchemaIssues(d) \o L0NameIssues(d) \o L0MissingIssues(d)
                    \o L0EntityIssues(d) \o L0StateIssues(d) \o L0ConstraintsFileIssues(d))

-----------------------------------------------------------------------------
(* verifyL1 *)

\* the documents of the files a list names that exist and parse
ParsedDocs(d, field, kind) ==
    LET refs == OrEmpty(field)
        Reads(i) == d.files[refs[i].v].k = kind
    IN  [i \in {j \in 1..Len(refs) : Reads(j)} |-> d.files[refs[i].v]]

\* entityNames: schema.title and schema.$id of every entity file
entityNames(d) ==
    LET docs == ParsedDocs(d, d.entities, "entity")
    IN  ({docs[i].title : i \in DOMAIN docs} \cup {docs[i].id : i \in DOMAIN docs}) \ {""}

\* stateMachineStates.values(): the map is keyed by machine.id ?? statePath,
\* so of the machines sharing a key the last one set stays
machineStateSets(d) ==
    LET refs == OrEmpty(d.states)
        Parsed(i) == d.files[refs[i].v].k = "machine"
        Key(i) == IF d.files[refs[i].v].id = "" THEN refs[i].v ELSE d.files[refs[i].v].id
        Stays(i) == Parsed(i) /\ ~\E j \in (i + 1)..Len(refs) : Parsed(j) /\ Key(j) = Key(i)
    IN  {d.files[refs[i].v].states : i \in {j \in 1..Len(refs) : Stays(j)}}

\* one issue per transition of a machine whose target is none of its states
L1TransitionIssues_AnyMachine(d) ==
    Flatten([i \in 1..Len(OrEmpty(d.states)) |->
        LET path == OrEmpty(d.states)[i].v
            doc == d.files[path]
        IN  IF doc.k # "machine" THEN <<>>
            ELSE [n \in 1..Cardinality(doc.targets \ UNION machineStateSets(d)) |->
                    Issue("error", "L1-STATE-INVALID-TRANSITION", path)]])
L1TransitionIssues(d) ==
    Flatten([i \in 1..Len(OrEmpty(d.states)) |->
        LET path == OrEmpty(d.states)[i].v
            doc == d.files[path]
        IN  IF doc.k # "machine" THEN <<>>
            ELSE [n \in 1..Cardinality(doc.targets \ doc.states) |->
                    Issue("error", "L1-STATE-INVALID-TRANSITION", path)]])

\* the loop over the constraints of verifyL1; a null entry, and an entity or
\* pattern entry without check, throws inside the try block and ends the loop
RECURSIVE L1ConstraintIssues(_, _, _, _)
L1ConstraintIssues(d, cs, i, file) ==
    IF i > Len(cs) THEN <<>>
    ELSE IF cs[i].null \/ (~cs[i].hasCheck /\ cs[i].type \in {"entity", "pattern"}) THEN <<>>
    ELSE (IF cs[i].type = "entity" /\ cs[i].entity # "" /\ cs[i].entity \notin entityNames(d)
          THEN <<Issue("error", "L1-CONSTRAINT-ENTITY-REF", file)>> ELSE <<>>)
         \o (IF /\ cs[i].type = "pattern"
                /\ cs[i].state # ""
                /\ ~\E states \in machineStateSets(d) : cs[i].state \in states
             THEN <<Issue("error", "L1-CONSTRAINT-STATE-REF", file)>> ELSE <<>>)
         \o L1ConstraintIssues(d, cs, i + 1, file)

L1ConstraintsFileIssues(d) ==
    IF d.constraints.t = "absent" \/ ~fileExists(d, d.constraints.s) THEN <<>>
    ELSE L1ConstraintIssues(d, d.files[d.constraints.s].constraints, 1, d.constraints.s)

validSections == {"constraints", "entities", "states", "docs"}

L1PriorityIssues(d) ==
    Flatten([i \in 1..Len(OrEmpty(d.priority)) |->
        IF OrEmpty(d.priority)[i].v \in validSections THEN <<>>
        ELSE <<Issue("warning", "L1-CONTEXT-PRIORITY", "spec.yaml")>>])

\* the iterations and the join() calls of verifyL1 that throw a TypeError
L1Throws(d) ==
    \/ ~Spreadable(d.entities) \/ ~Spreadable(d.states) \/ ~Spreadable(d.priority)
    \/ \E i \in 1..Len(OrEmpty(d.entities)) : ~OrEmpty(d.entities)[i].isStr
    \/ \E i \in 1..Len(OrEmpty(d.states)) : ~OrEmpty(d.states)[i].isStr
    \/ d.constraints.t = "num"

\* readFile and parseYaml of spec.yaml are outside any try block, and so is
\* manifest.entities, which throws for a manifest that is null
verifyL1(d) ==
    IF d.manifest \in {"missing", "unparsable", "null"} THEN Threw
    ELSE IF d.manifest = "scalar" THEN Returned(<<>>)
    ELSE IF L1Throws(d) THEN Threw
    ELSE Returned(L1TransitionIssues(d) \o L1ConstraintsFileIssues(d) \o L1PriorityIssues(d))

-----------------------------------------------------------------------------
(* loadSpecPackage *)

LoadNotRun == [ran |-> FALSE, threw |-> FALSE, ok |-> FALSE, errors |-> <<>>]
LoadThrew == [ran |-> TRUE, threw |-> TRUE, ok |-> FALSE, errors |-> <<>>]
LoadErrors(errors) == [ran |-> TRUE, threw |-> FALSE, ok |-> FALSE, errors |-> errors]
LoadOk == [ran |-> TRUE, threw |-> FALSE, ok |-> TRUE, errors |-> <<>>]

ValidationError(path, message) == [path |-> path, message |-> message]

TraversalErrors(d) ==
    Flatten([i \in 1..Len(allPaths(d)) |->
        IF allPaths(d)[i].escapes
        THEN <<ValidationError(allPaths(d)[i].v, "Path traversal not allowed")>> ELSE <<>>])

NotFoundErrors(d) ==
    Flatten([i \in 1..Len(allPaths(d)) |->
        IF fileExists(d, allPaths(d)[i].v) THEN <<>>
        ELSE <<ValidationError(allPaths(d)[i].v, "Referenced file not found")>>])

\* JSON.parse of an entity or state file outside any try block
JsonThrows(d, field) ==
    \E i \in 1..Len(OrEmpty(field)) : d.files[OrEmpty(field)[i].v].k = "garbage"

\* parseYaml of the constraints file, parsed.constraints and constraint.id
\* outside any try block
ConstraintsThrow(d) ==
    /\ d.constraints.t = "str"
    /\ \/ d.files[d.constraints.s].k \in {"garbage", "null"}
       \/ \E i \in 1..Len(d.files[d.constraints.s].constraints) :
            d.files[d.constraints.s].constraints[i].null

DuplicateErrors(d) ==
    IF d.constraints.t # "str" THEN <<>>
    ELSE LET cs == d.files[d.constraints.s].constraints
         IN  Flatten([i \in 1..Len(cs) |->
                IF \E j \in 1..(i - 1) : cs[j].id = cs[i].id
                THEN <<ValidationError(d.constraints.s, "Duplicate constraint ID")>>
                ELSE <<>>])

loadSpecPackage(d) ==
    IF d.manifest = "missing"
    THEN LoadErrors(<<ValidationError("spec.yaml", "spec.yaml not found")>>)
    ELSE IF d.manifest = "unparsable"
    THEN LoadErrors(<<ValidationError("spec.yaml", "Failed to parse spec.yaml")>>)
    ELSE IF d.manifest \in {"null", "scalar"}
    THEN LoadErrors(<<ValidationError("spec.yaml", "must be object")>>)
    ELSE IF SchemaErrors(d) # <<>>
    THEN LoadErrors([i \in 1..Len(SchemaErrors(d)) |->
                        ValidationError(SchemaErrors(d)[i], "schema")])
    ELSE IF TraversalErrors(d) # <<>> THEN LoadErrors(TraversalErrors(d))
    ELSE IF NotFoundErrors(d) # <<>> THEN LoadErrors(NotFoundErrors(d))
    ELSE IF JsonThrows(d, d.entities) \/ JsonThrows(d, d.states) THEN LoadThrew
    ELSE IF ConstraintsThrow(d) THEN LoadThrew
    ELSE IF DuplicateErrors(d) # <<>> THEN LoadErrors(DuplicateErrors(d))
    ELSE LoadOk

-----------------------------------------------------------------------------
(* The calls on a package directory *)

\* a caller (publish, ci, the registry) runs verifyL0(directory)
VerifyL0 ==
    /\ dir.manifest # "idle"
    /\ ~l0Result.ran
    /\ l0Result' = verifyL0(dir)
    /\ UNCHANGED <<dir, l1Result, loadResult, cmdResult>>
    /\ UNCHANGED NotPkg

\* a caller runs verifyL1(directory)
VerifyL1 ==
    /\ dir.manifest # "idle"
    /\ ~l1Result.ran
    /\ l1Result' = verifyL1(dir)
    /\ UNCHANGED <<dir, l0Result, loadResult, cmdResult>>
    /\ UNCHANGED NotPkg

\* `specpm verify <path>`: verifyCommand runs verifyL0 and reports it
VerifyCommand ==
    /\ dir.manifest # "idle"
    /\ ~cmdResult.ran
    /\ cmdResult' = verifyL0(dir)
    /\ UNCHANGED <<dir, l0Result, l1Result, loadResult>>
    /\ UNCHANGED NotPkg

\* a caller runs loadSpecPackage(directory)
LoadSpecPackage ==
    /\ dir.manifest # "idle"
    /\ ~loadResult.ran
    /\ loadResult' = loadSpecPackage(dir)
    /\ UNCHANGED <<dir, l0Result, l1Result, cmdResult>>
    /\ UNCHANGED NotPkg

-----------------------------------------------------------------------------
(* Package directories tried *)

Paths == {"e1", "s1", "s2", "c", "d"}

NoFiles == [p \in Paths |-> Missing]

Dir(manifest, name, scalarsOk, entities, states, constraints, docs, priority, files) ==
    [manifest |-> manifest, name |-> name, scalarsOk |-> scalarsOk,
     entities |-> entities, states |-> states, constraints |-> constraints,
     docs |-> docs, priority |-> priority, files |-> files]

IdleDir == Dir("idle", "ok", TRUE, Absent, Absent, Absent, Absent, Absent, NoFiles)

\* a directory whose spec.yaml is missing, does not parse, is empty (null) or
\* holds a scalar
BrokenDirs ==
    {Dir(m, "ok", TRUE, Absent, Absent, Absent, Absent, Absent, NoFiles) :
        m \in {"missing", "unparsable", "null", "scalar"}}

MachineOk == MachineDoc("auth", {"idle", "loading"}, {"loading"})
MachineBad == MachineDoc("auth", {"idle", "loading"}, {"loading", "gone"})

COk == Constraint("c1", TRUE, "entity", TRUE, "User", "")
CGhost == Constraint("c2", TRUE, "entity", TRUE, "Ghost", "")
CDup == Constraint("c1", TRUE, "pattern", TRUE, "", "idle")
CBare == Constraint("", FALSE, "", FALSE, "", "")

\* entities and the file it names
EntityCases ==
    {<<Absent, Missing>>, <<Num, Missing>>, <<List(<<NumItem>>), Missing>>}
        \cup {<<List(<<PathItem("e1")>>), f>> :
                f \in {Missing, Garbage, NullDoc, EntityDoc("User", "user")}}

StateCases ==
    {<<Absent, Missing>>, <<Num, Missing>>}
        \cup {<<List(<<PathItem("s1")>>), f>> : f \in {Missing, Garbage, MachineOk, MachineBad}}

ConstraintCases ==
    {<<Absent, Missing>>, <<Num, Missing>>}
        \cup {<<Str("c"), f>> :
                f \in {Missing, Garbage, NullDoc, ConstraintsDoc(<<>>), ConstraintsDoc(<<COk>>),
                       ConstraintsDoc(<<COk, CDup>>), ConstraintsDoc(<<CGhost, CBare>>),
                       ConstraintsDoc(<<NullConstraint>>)}}

\* docs and the file it names; the escaping item is the path ../d of a file
\* that exists beside the package directory
DocCases ==
    {<<Absent, Missing>>, <<List(<<PathItem("d")>>), Missing>>, <<List(<<PathItem("d")>>), Text>>,
     <<List(<<EscapingItem("d")>>), Text>>}

PriorityCases == {Absent, List(<<PathItem("docs"), PathItem("bogus")>>)}

ObjectDirs ==
    {Dir("object", name, scalarsOk, e[1], s[1], c[1], dc[1], pr,
         [p \in Paths |-> IF p = "e1" THEN e[2] ELSE IF p = "s1" THEN s[2]
                          ELSE IF p = "c" THEN c[2] ELSE IF p = "d" THEN dc[2]
                          ELSE Missing]) :
        name \in {"ok", "bad"}, scalarsOk \in BOOLEAN, e \in EntityCases, s \in StateCases,
        c \in ConstraintCases, dc \in DocCases, pr \in PriorityCases}

\* packages with up to two state machines and a list of constraints
MaxConstraints == 3

MachinePool ==
    {MachineOk, MachineBad, MachineDoc("order", {"gone"}, {}),
     MachineDoc("auth", {"gone"}, {"idle"}), MachineDoc("", {"idle"}, {"idle"}), Garbage}

MachineCases ==
    {<<Absent, Missing, Missing>>}
        \cup {<<List(<<PathItem("s1")>>), m, Missing>> : m \in MachinePool}
        \cup {<<List(<<PathItem("s1"), PathItem("s2")>>), m, n>> : m \in MachinePool, n \in MachinePool}

PIdle == Constraint("c1", TRUE, "pattern", TRUE, "", "idle")
PGone == Constraint("c2", TRUE, "pattern", TRUE, "", "gone")
ENoCheck == Constraint("c3", TRUE, "entity", FALSE, "", "")

ConstraintPool == {PIdle, PGone, COk, ENoCheck, CBare, NullConstraint}

ConstraintSeqs == UNION {[1..n -> ConstraintPool] : n \in 0..MaxConstraints}

ConsistencyDirs ==
    {Dir("object", "ok", TRUE, e, m[1], Str("c"), Absent, Absent,
         [p \in Paths |-> IF p = "s1" THEN m[2] ELSE IF p = "s2" THEN m[3]
                          ELSE IF p = "c" THEN ConstraintsDoc(cs) ELSE Missing]) :
        e \in {Absent, Num}, m \in MachineCases, cs \in ConstraintSeqs}

ConsistencyDirInit ==
    /\ dir \in ConsistencyDirs
    /\ l0Result = NotRun
    /\ l1Result = NotRun
    /\ loadResult = LoadNotRun
    /\ cmdResult = NotRun

PkgIdle ==
    /\ dir = IdleDir
    /\ l0Result = NotRun
    /\ l1Result = NotRun
    /\ loadResult = LoadNotRun
    /\ cmdResult = NotRun

PkgInit ==
    /\ dir \in BrokenDirs \cup ObjectDirs
    /\ l0Result = NotRun
    /\ l1Result = NotRun
    /\ loadResult = LoadNotRun
    /\ cmdResult = NotRun

-----------------------------------------------------------------------------
(* The conformance check: checkEntity, checkPattern, checkCommand *)

\* a CheckResult; about is the field or the call its message names
CheckResult(package, constraint, status, file, kind, about) ==
    [package |-> package, constraint |-> constraint, status |-> status,
     file |-> file, kind |-> kind, about |-> about]

\* a ConstraintDefinition as the checkers read it; "" and <<>> stand for a
\* key of check that is not set
CheckConstraint(id, type, entity, hasRequiredFields, requiredFields, pattern, required) ==
    [id |-> id, type |-> type, entity |-> entity,
     hasRequiredFields |-> hasRequiredFields, requiredFields |-> requiredFields,
     pattern |-> pattern, required |-> required]

\* an entity schema: title, $id, required and, per property, its type ("" when
\* the property declares none)
TypedSchema(title, id, required, properties) ==
    [title |-> title, id |-> id, required |-> required, properties |-> properties]
Schema(title, id, required) == TypedSchema(title, id, required, <<>>)

\* a source file: its path, its interface declarations and the texts of the
\* callees of its call expressions
\* an interface declaration: its name, the names of its properties and, per
\* property, the kind of its type annotation ("" when it has none)
TypedInterface(name, types) == [name |-> name, props |-> DOMAIN types, types |-> types]
Interface(name, props) == TypedInterface(name, [p \in props |-> ""])
\* a switch statement: its discriminant node and the string literals of its cases
Switch(discriminant, cases) == [discriminant |-> discriminant, cases |-> cases]
FileWithSwitches(path, interfaces, calls, switches) ==
    [path |-> path, interfaces |-> interfaces, calls |-> calls, switches |-> switches]
SourceFile(path, interfaces, calls) == FileWithSwitches(path, interfaces, calls, <<>>)

\* String.prototype.includes on texts written as sequences
Includes(text, pat) ==
    \E i \in 1..(Len(text) + 1) :
        /\ i + Len(pat) - 1 <= Len(text)
        /\ SubSeq(text, i, i + Len(pat) - 1) = pat

\* findInterfaceDeclarations(sf, name)
findInterfaceDeclarations(sf, name) == SelectSeq(sf.interfaces, LAMBDA i : i.name = name)

\* the fails one interface adds: one per entry of the list that is no property
MissingFails(c, pkg, path, fields, props, kind) ==
    Flatten([i \in 1..Len(fields) |->
        IF fields[i] \in props THEN <<>>
        ELSE <<CheckResult(pkg, c.id, "fail", path, kind, fields[i])>>])

CountFails(results) == Cardinality({i \in 1..Len(results) : results[i].status = "fail"})

\* the body of the loop over the interfaces of checkEntity: results with the
\* fails of this interface pushed and, when results holds no fail, a pass
CheckInterface(c, pkg, schema, path, iface, results) ==
    LET pushed ==
            results
            \o (IF c.hasRequiredFields
                THEN MissingFails(c, pkg, path, c.requiredFields, iface.props, "missing-required")
                ELSE <<>>)
            \o MissingFails(c, pkg, path, schema.required, iface.props, "missing-schema-required")
    IN  IF CountFails(pushed) = 0
        THEN Append(pushed, CheckResult(pkg, c.id, "pass", path, "satisfied", ""))
        ELSE pushed

\* every (file, interface) pair checkEntity visits, in its order
MatchingInterfaces(files, name) ==
    Flatten([i \in 1..Len(files) |->
        [j \in 1..Len(findInterfaceDeclarations(files[i], name)) |->
            [path |-> files[i].path, iface |-> findInterfaceDeclarations(files[i], name)[j]]]])

RECURSIVE EntityLoop(_, _, _, _, _, _)
EntityLoop(c, pkg, schema, decls, i, results) ==
    IF i > Len(decls) THEN results
    ELSE EntityLoop(c, pkg, schema, decls, i + 1,
                    CheckInterface(c, pkg, schema, decls[i].path, decls[i].iface, results))

checkEntity(c, pkg, files, entities) ==
    LET matches == SelectSeq(entities, LAMBDA e : e.title = c.entity \/ e.id = c.entity)
        decls == MatchingInterfaces(files, c.entity)
    IN  IF c.entity = "" THEN <<>>
        ELSE IF matches = <<>>
        THEN <<CheckResult(pkg, c.id, "skip", "", "schema-not-found", c.entity)>>
        ELSE IF decls = <<>>
        THEN <<CheckResult(pkg, c.id, "fail", "", "not-implemented", c.entity)>>
        ELSE EntityLoop(c, pkg, matches[1], decls, 1, <<>>)

checkPattern(c, pkg, files) ==
    LET hits == {i \in 1..Len(files) : \E call \in files[i].calls : Includes(call, c.required)}
        first == CHOOSE i \in hits : \A j \in hits : i <= j
    IN  IF c.pattern = "function-call" /\ c.required # <<>>
        THEN IF hits # {}
             THEN <<CheckResult(pkg, c.id, "pass", files[first].path, "call-found", "")>>
             ELSE <<CheckResult(pkg, c.id, "fail", "", "call-missing", "")>>
        ELSE <<CheckResult(pkg, c.id, "skip", "", "unsupported-pattern", c.pattern)>>

\* the results one constraint of one spec adds to allResults
ConstraintResults(spec, c, files) ==
    IF c.type = "entity" THEN checkEntity(c, spec.name, files, spec.entities)
    ELSE IF c.type = "pattern" THEN checkPattern(c, spec.name, files)
    ELSE <<CheckResult(spec.name, c.id, "skip", "", "unsupported-type", c.type)>>

\* the loops over specs and their constraints
RunChecks(specs, files) ==
    Flatten([i \in 1..Len(specs) |->
        Flatten([j \in 1..Len(specs[i].constraints) |->
            ConstraintResults(specs[i], specs[i].constraints[j], files)])])

CountStatus(results, status) ==
    Cardinality({i \in 1..Len(results) : results[i].status = status})

Summary(results) ==
    [pass |-> CountStatus(results, "pass"), fail |-> CountStatus(results, "fail"),
     warn |-> CountStatus(results, "warn"), skip |-> CountStatus(results, "skip")]

CheckNotRun == [ran |-> FALSE, ok |-> FALSE, error |-> "", results |-> <<>>,
                summary |-> Summary(<<>>), specs |-> <<>>]
CheckFailed(error) == [ran |-> TRUE, ok |-> FALSE, error |-> error, results |-> <<>>,
                       summary |-> Summary(<<>>), specs |-> <<>>]
CheckReport(results, specs) ==
    [ran |-> TRUE, ok |-> TRUE, error |-> "", results |-> results,
     summary |-> Summary(results), specs |-> [i \in 1..Len(specs) |-> specs[i].name]]

checkCommand(specsFail, all, only, files) ==
    LET specs == IF only = "" THEN all ELSE SelectSeq(all, LAMBDA sp : sp.name = only)
    IN  IF specsFail THEN CheckFailed("Failed to load specs")
        ELSE IF only # "" /\ specs = <<>> THEN CheckFailed("not found in installed packages")
        ELSE CheckReport(RunChecks(specs, files), specs)

\* `specpm check`
CheckCommand ==
    /\ optSpec # "idle"
    /\ ~checkResult.ran
    /\ checkResult' = checkCommand(listError, installed, optSpec, sourceFiles)
    /\ UNCHANGED <<installed, listError, optSpec, sourceFiles>>
    /\ UNCHANGED NotChk

-----------------------------------------------------------------------------
(* Installed packages and source files tried *)

Fields == {"a", "b"}

\* the lists of fields a schema or a constraint requires
FieldLists == {<<>>, <<"a">>, <<"b">>, <<"a", "b">>}

SpecA == "@s/a"
SpecB == "@s/b"

\* the callee texts "bcrypt.hash" and "log"
BcryptHash == <<"bcrypt", ".", "hash">>
Log == <<"log">>

EntityConstraint(hasRf, rf) == CheckConstraint("c1", "entity", "User", hasRf, rf, "", <<>>)
PatternConstraint == CheckConstraint("c2", "pattern", "", FALSE, <<>>, "function-call", <<"hash">>)
StructuralConstraint == CheckConstraint("c2", "structural", "", FALSE, <<>>, "", <<>>)

ConstraintLists ==
    UNION {{<<e>>, <<e, o>>, <<o, e>>} :
            e \in {EntityConstraint(FALSE, <<>>)} \cup {EntityConstraint(TRUE, rf) : rf \in FieldLists},
            o \in {PatternConstraint, StructuralConstraint}}

\* a loaded SpecPackage: manifest.name, constraints, entities and states
LoadedPackage(name, constraints, entities, states) ==
    [name |-> name, constraints |-> constraints, entities |-> entities, states |-> states]
InstalledPackage(name, constraints, required) ==
    LoadedPackage(name, constraints, <<Schema("User", "user", required)>>, <<>>)

\* file f1 may declare User, file f2 may declare User and calls bcrypt.hash
F1s == {SourceFile("f1", <<>>, {Log})}
        \cup {SourceFile("f1", <<Interface("User", props)>>, {Log}) : props \in SUBSET Fields}
F2s == {SourceFile("f2", <<>>, {BcryptHash})}
        \cup {SourceFile("f2", <<Interface("User", props)>>, {BcryptHash}) : props \in SUBSET Fields}

SourceFileLists ==
    {<<>>} \cup {<<f>> : f \in F1s} \cup {<<f, g>> : f \in F1s, g \in F2s}
        \cup {<<g, f>> : f \in F1s, g \in F2s}

ChkIdle ==
    /\ installed = <<>>
    /\ listError = FALSE
    /\ optSpec = "idle"
    /\ sourceFiles = <<>>
    /\ checkResult = CheckNotRun

ChkInit ==
    /\ \E cs \in ConstraintLists, required \in FieldLists :
        LET A == InstalledPackage(SpecA, cs, required)
            B == InstalledPackage(SpecB, cs, required)
        IN  installed \in {<<>>, <<A>>, <<A, B>>, <<B, A>>}
    /\ listError \in BOOLEAN
    /\ listError => installed = <<>>
    /\ optSpec \in {"", SpecA}
    /\ sourceFiles \in SourceFileLists
    /\ checkResult = CheckNotRun

-----------------------------------------------------------------------------
(* The registry: PUT /api/v1/packages/:scope/:name/:version *)

RATE_LIMIT_MAX == 60

\* the package every request names
PackageName == "@s/p"

\* 'sha256-' + the digest of the tarball
Integrity(tarball) == <<"sha256-", tarball>>

\* a tarball: its bytes and whether spec.yaml is at its root
Tarball(bytes, hasSpecYaml) == [bytes |-> bytes, hasSpecYaml |-> hasSpecYaml]
NoTarball == Tarball("", FALSE)

\* a request: the user of its token ("" when it has none), its parts ("" for
\* a manifest part that is missing, "{" for one that is no JSON), and the
\* handler's position, locals and reply
Request(user, version, tarball, manifest) ==
    [user |-> user, version |-> version, tarball |-> tarball, manifest |-> manifest,
     pc |-> "received", existing |-> FALSE, status |-> 0, later |-> FALSE]

MaxRequests == 2

Versions == {"1.0.0", "1.1.0"}

\* per version: two complete requests of two users, one without token, one
\* whose manifest is no JSON, one without tarball part, one without manifest
\* part and one whose tarball has no spec.yaml
PublishRequests ==
    UNION {{Request("u1", v, Tarball("t1", TRUE), "m1"),
            Request("u2", v, Tarball("t2", TRUE), "m2"),
            Request("", v, Tarball("t1", TRUE), "m1"),
            Request("u1", v, Tarball("t1", TRUE), "{"),
            Request("u1", v, NoTarball, "m1"),
            Request("u1", v, Tarball("t1", TRUE), ""),
            Request("u1", v, Tarball("t3", FALSE), "m1")} : v \in Versions}

VersionExists(version) == \E row \in versions : row.name = PackageName /\ row.version = version
PackageExists == \E row \in packages : row.name = PackageName

Reply(i, status) == [requests EXCEPT ![i].pc = "done", ![i].status = status]
Goto(i, pc) == [requests EXCEPT ![i].pc = pc]

\* the version check of the handler: the reply, 0 to go on
VersionCheck_Skipped(version) == 0
VersionCheck(version) == IF VersionExists(version) THEN 409 ELSE 0

\* the onRequest hook and the start of the handler: rate limit, then
\* getUserFromToken, then the multipart parts are awaited
Receive ==
    \E req \in PublishRequests :
    LET i == Len(requests) + 1
        arrived == Append(requests, [req EXCEPT !.later = VersionExists(req.version)])
    IN  /\ Len(requests) < MaxRequests
        /\ rateCount >= 0
        /\ rateCount' = rateCount + 1
        /\ requests' = IF rateCount + 1 > RATE_LIMIT_MAX THEN [arrived EXCEPT ![i].pc = "done", ![i].status = 429]
                       ELSE IF req.user = "" THEN [arrived EXCEPT ![i].pc = "done", ![i].status = 401]
                       ELSE [arrived EXCEPT ![i].pc = "parts"]
        /\ UNCHANGED <<packages, versions, tarballs>>
        /\ UNCHANGED NotReg

\* the window of the rate limit entry is over: the next request resets it
WindowExpires ==
    /\ rateCount > 0
    /\ rateCount' = 0
    /\ UNCHANGED <<packages, versions, tarballs, requests>>
    /\ UNCHANGED NotReg

\* the parts have been read: required fields, JSON.parse(manifestJson),
\* the version check
CheckVersion ==
    \E i \in 1..Len(requests) :
    LET r == requests[i]
    IN  /\ r.pc = "parts"
        /\ requests' = IF r.tarball = NoTarball \/ r.manifest = "" THEN Reply(i, 400)
                       ELSE IF r.manifest = "{" THEN Reply(i, 500)
                       ELSE IF VersionCheck(r.version) # 0 THEN Reply(i, VersionCheck(r.version))
                       ELSE [requests EXCEPT ![i].pc = "verify", ![i].existing = PackageExists]
        /\ UNCHANGED <<packages, versions, tarballs, rateCount>>
        /\ UNCHANGED NotReg

\* the tarball is extracted to a temporary directory: spec.yaml must exist
VerifyTarball ==
    \E i \in 1..Len(requests) :
    LET r == requests[i]
    IN  /\ r.pc = "verify"
        /\ requests' = IF r.tarball.hasSpecYaml THEN Goto(i, "store") ELSE Reply(i, 400)
        /\ UNCHANGED <<packages, versions, tarballs, rateCount>>
        /\ UNCHANGED NotReg

\* writeFile(tarballPath, tarballBuffer)
StoreTarball ==
    \E i \in 1..Len(requests) :
    LET r == requests[i]
    IN  /\ r.pc = "store"
        /\ tarballs' = [tarballs EXCEPT ![r.version] = r.tarball.bytes]
        /\ requests' = Goto(i, "record")
        /\ UNCHANGED <<packages, versions, rateCount>>
        /\ UNCHANGED NotReg

\* UPDATE or INSERT packages, INSERT versions; an insert that breaks a UNIQUE
\* constraint throws and the reply is 500
RecordVersion ==
    \E i \in 1..Len(requests) :
    LET r == requests[i]
        row == [name |-> PackageName, version |-> r.version, manifest |-> r.manifest,
                integrity |-> Integrity(r.tarball.bytes)]
    IN  /\ r.pc = "record"
        /\ IF ~r.existing /\ PackageExists
           THEN /\ requests' = Reply(i, 500)
                /\ UNCHANGED <<packages, versions>>
           ELSE /\ packages' = IF r.existing THEN packages
                               ELSE packages \cup {[name |-> PackageName, owner |-> r.user]}
                /\ IF VersionExists(r.version)
                   THEN /\ requests' = Reply(i, 500)
                        /\ UNCHANGED versions
                   ELSE /\ requests' = Reply(i, 201)
                        /\ versions' = versions \cup {row}
        /\ UNCHANGED <<tarballs, rateCount>>
        /\ UNCHANGED NotReg

-----------------------------------------------------------------------------
(* Publish requests tried *)

RegIdle ==
    /\ packages = {}
    /\ versions = {}
    /\ tarballs = [v \in Versions |-> ""]
    /\ requests = <<>>
    /\ rateCount = -1

\* the client has made none, or all but one, of the requests of its window
RegInit ==
    /\ packages = {}
    /\ versions = {}
    /\ tarballs = [v \in Versions |-> ""]
    /\ requests = <<>>
    /\ rateCount \in {0, RATE_LIMIT_MAX - 1}

-----------------------------------------------------------------------------
(* The lint rules entity-match and state-coverage *)

\* extractTypeText(typeAnnotation): the text the rule keeps for a property,
\* from the kind of its annotation
extractTypeText(kind) ==
    CASE kind = "TSStringKeyword" -> <<"string">>
      [] kind = "TSNumberKeyword" -> <<"number">>
      [] kind = "TSBooleanKeyword" -> <<"boolean">>
      [] kind = "TSAnyKeyword" -> <<"any">>
      [] kind = "TSArrayType" -> <<"Array">>
      [] kind = "TSObjectKeyword" -> <<"object">>
      [] OTHER -> <<"any">>

\* getInterfaceProperties(iface): per property, the text of its type (an
\* array annotation is string[] and a type reference is Date in the files
\* tried; a property with no annotation has type any)
getInterfaceProperties(iface) ==
    [p \in iface.props |->
        CASE iface.types[p] = "TSStringKeyword" -> <<"string">>
          [] iface.types[p] = "TSNumberKeyword" -> <<"number">>
          [] iface.types[p] = "TSBooleanKeyword" -> <<"boolean">>
          [] iface.types[p] = "TSArrayType" -> <<"string", "[]">>
          [] iface.types[p] = "TSObjectKeyword" -> <<"object">>
          [] iface.types[p] = "TSTypeReference" -> <<"Date">>
          [] OTHER -> <<"any">>]

\* schemaTypeToTs[st]; {} where the table has no entry
schemaTypeToTs(st) ==
    CASE st = "string" -> {<<"string">>}
      [] st = "number" -> {<<"number">>}
      [] st = "integer" -> {<<"number">>}
      [] st = "boolean" -> {<<"boolean">>}
      [] st = "array" -> {<<"Array">>, <<"any", "[]">>, <<"string", "[]">>,
                          <<"number", "[]">>, <<"boolean", "[]">>}
      [] st = "object" -> {<<"object">>, <<"Record">>}
      [] OTHER -> {}

\* isTypeCompatible(tsType, schemaType), schemaType one type name or ""
isTypeCompatible(tsType, schemaType) ==
    IF schemaType = "" THEN TRUE
    ELSE \/ \E c \in schemaTypeToTs(schemaType) : Includes(tsType, c)
         \/ tsType = <<"any">>

\* schemaProps[field]?.type
SchemaType(schema, field) ==
    IF field \in DOMAIN schema.properties THEN schema.properties[field] ELSE ""

\* compareToSchema(properties, schema), properties a map name -> typeText
compareToSchema(properties, schema) ==
    Flatten([i \in 1..Len(schema.required) |->
        LET field == schema.required[i]
            expected == SchemaType(schema, field)
        IN  IF field \notin DOMAIN properties
            THEN <<[field |-> field, issue |-> "missing", expected |-> "", got |-> <<>>]>>
            ELSE IF expected # "" /\ ~isTypeCompatible(properties[field], expected)
            THEN <<[field |-> field, issue |-> "type-mismatch",
                    expected |-> expected, got |-> properties[field]]>>
            ELSE <<>>])

\* the entries set into entitySchemas, in order: a later one replaces an
\* earlier one of the same name
entitySchemas(specs) ==
    SelectSeq(
        Flatten([i \in 1..Len(specs) |->
            [j \in 1..Len(specs[i].entities) |->
                LET e == specs[i].entities[j]
                IN  [name |-> IF e.title # "" THEN e.title ELSE e.id,
                     schema |-> e, specName |-> specs[i].name]]]),
        LAMBDA entry : entry.name # "")

\* checkDeclaration(node, name, properties) of rule entity-match
checkDeclaration(schemas, iface) ==
    LET entries == SelectSeq(schemas, LAMBDA entry : entry.name = iface.name)
        entry == entries[Len(entries)]
        issues == compareToSchema([p \in iface.props |-> extractTypeText(iface.types[p])],
                                  entry.schema)
    IN  IF entries = <<>> THEN <<>>
        ELSE [k \in 1..Len(issues) |->
                [messageId |-> IF issues[k].issue = "missing" THEN "missingField"
                               ELSE "typeMismatch",
                 name |-> iface.name, field |-> issues[k].field,
                 expected |-> issues[k].expected, got |-> issues[k].got,
                 spec |-> entry.specName]]

\* rule entity-match on one file: its reports, in order
entityMatch(specs, file) ==
    IF specs = <<>> \/ entitySchemas(specs) = <<>> THEN <<>>
    ELSE Flatten([i \in 1..Len(file.interfaces) |->
            checkDeclaration(entitySchemas(specs), file.interfaces[i])])

\* String.prototype.toLowerCase on a text written as its characters
UpperCase == <<"A", "B", "C", "D", "E", "F", "G", "H", "I", "J", "K", "L", "M",
               "N", "O", "P", "Q", "R", "S", "T", "U", "V", "W", "X", "Y", "Z">>
LowerCase == <<"a", "b", "c", "d", "e", "f", "g", "h", "i", "j", "k", "l", "m",
               "n", "o", "p", "q", "r", "s", "t", "u", "v", "w", "x", "y", "z">>
toLowerCase(text) ==
    [i \in 1..Len(text) |->
        IF \E k \in 1..26 : UpperCase[k] = text[i]
        THEN LowerCase[CHOOSE k \in 1..26 : UpperCase[k] = text[i]]
        ELSE text[i]]

\* an expression node: an Identifier, a MemberExpression of two Identifiers,
\* or a node of another type
Identifier(name) == [type |-> "Identifier", name |-> name, property |-> <<>>]
MemberExpression(object, property) ==
    [type |-> "MemberExpression", name |-> object, property |-> property]
CallExpression(callee) == [type |-> "CallExpression", name |-> callee, property |-> <<>>]

getNodeText(node) ==
    IF node.type = "Identifier" THEN node.name
    ELSE IF node.type = "MemberExpression" THEN node.name \o <<".">> \o node.property
    ELSE <<>>

isStateLike(text) ==
    LET lower == toLowerCase(text)
    IN  \/ Includes(lower, <<"s", "t", "a", "t", "e">>)
        \/ Includes(lower, <<"s", "t", "a", "t", "u", "s">>)
        \/ Includes(lower, <<"p", "h", "a", "s", "e">>)
        \/ Includes(lower, <<"s", "t", "e", "p">>)

\* a state file as the rule reads it: name, title, $id ("" when not set) and
\* the keys of states, in order
StateFile(name, title, id, states) ==
    [name |-> name, title |-> title, id |-> id, states |-> states]

\* the machines rule state-coverage collects: those with a state
stateMachines(specs) ==
    SelectSeq(
        Flatten([i \in 1..Len(specs) |->
            [j \in 1..Len(specs[i].states) |->
                LET s == specs[i].states[j]
                IN  [name |-> IF s.name # "" THEN s.name
                              ELSE IF s.title # "" THEN s.title
                              ELSE IF s.id # "" THEN s.id
                              ELSE "unknown",
                     states |-> s.states]]]),
        LAMBDA machine : Len(machine.states) > 0)

\* the values of the cases whose test is a string literal
handledCases(switch) ==
    {switch.cases[i].value : i \in {k \in 1..Len(switch.cases) : switch.cases[k].type = "Literal"}}

\* the reports of one machine for one switch, were every switch taken to be
\* about the machine
MachineReports_Unguarded(machine, handled, node) ==
    Flatten([k \in 1..Len(machine.states) |->
        IF machine.states[k] \notin handled
        THEN <<[messageId |-> "unhandledState", node |-> node,
                state |-> machine.states[k], machine |-> machine.name]>>
        ELSE <<>>])

\* the reports of one machine for one switch
MachineReports(machine, handled, node) ==
    IF \A k \in 1..Len(machine.states) : machine.states[k] \notin handled THEN <<>>
    ELSE Flatten([k \in 1..Len(machine.states) |->
            IF machine.states[k] \notin handled
            THEN <<[messageId |-> "unhandledState", node |-> node,
                    state |-> machine.states[k], machine |-> machine.name]>>
            ELSE <<>>])

\* handler SwitchStatement of rule state-coverage, node the position of the switch
SwitchStatement(machines, switch, node) ==
    IF ~isStateLike(getNodeText(switch.discriminant)) THEN <<>>
    ELSE Flatten([m \in 1..Len(machines) |->
            MachineReports(machines[m], handledCases(switch), node)])

\* rule state-coverage on one file: its reports, in order
stateCoverage(specs, file) ==
    IF specs = <<>> \/ stateMachines(specs) = <<>> THEN <<>>
    ELSE Flatten([n \in 1..Len(file.switches) |->
            SwitchStatement(stateMachines(specs), file.switches[n], n)])

LintNotRun == [ran |-> FALSE, messages |-> <<>>]
LintReports(messages) == [ran |-> TRUE, messages |-> messages]

\* ESLint runs rule entity-match on the file, the first of sourceFiles
EntityMatch ==
    /\ sourceFiles # <<>>
    /\ ~entityMatchReports.ran
    /\ entityMatchReports' = LintReports(entityMatch(installed, sourceFiles[1]))
    /\ UNCHANGED <<stateCoverageReports, chkVars>>
    /\ UNCHANGED NotLint

\* ESLint runs rule state-coverage on the file, the first of sourceFiles
StateCoverage ==
    /\ sourceFiles # <<>>
    /\ ~stateCoverageReports.ran
    /\ stateCoverageReports' = LintReports(stateCoverage(installed, sourceFiles[1]))
    /\ UNCHANGED <<entityMatchReports, chkVars>>
    /\ UNCHANGED NotLint

-----------------------------------------------------------------------------
(* Installed packages and files linted *)

\* the kinds of annotation a property is declared with
AnnotationKinds == {"", "TSStringKeyword", "TSNumberKeyword", "TSArrayType", "TSTypeReference"}

\* interface User with a subset of the fields a and b, each of some kind
TypedInterfaces ==
    UNION {{TypedInterface("User", types) : types \in [props -> AnnotationKinds]} :
            props \in SUBSET Fields}

\* schema User: required a subset of a and b, each property of some type or none
TypedSchemas ==
    {TypedSchema("User", "user", required, properties) :
        required \in FieldLists, properties \in [Fields -> {"", "string", "integer", "array"}]}

EntityMatchInit ==
    /\ \E schema \in TypedSchemas :
        installed = <<LoadedPackage(SpecA, <<EntityConstraint(FALSE, <<>>)>>, <<schema>>, <<>>)>>
    /\ listError = FALSE
    /\ optSpec = ""
    /\ \E iface \in TypedInterfaces : sourceFiles = <<SourceFile("f1", <<iface>>, {Log})>>
    /\ checkResult = CheckNotRun
    /\ entityMatchReports = LintNotRun
    /\ stateCoverageReports = LintNotRun

\* the state files tried: authFlow, an unnamed machine and one with no state
AuthFlow == StateFile("authFlow", "", "", <<"idle", "busy", "failed">>)
Unnamed == StateFile("", "", "", <<"idle", "off">>)
Titled == StateFile("", "door", "", <<"open", "off">>)
Stateless == StateFile("empty", "", "", <<>>)

StateFileLists ==
    {<<>>} \cup {<<s>> : s \in {AuthFlow, Unnamed, Titled, Stateless}}
        \cup {<<s, t>> : s \in {AuthFlow, Stateless}, t \in {AuthFlow, Unnamed, Titled}}

\* the discriminants tried: state, user.Status, x and getState()
Discriminants ==
    {Identifier(<<"s", "t", "a", "t", "e">>),
     MemberExpression(<<"u", "s", "e", "r">>, <<"S", "t", "a", "t", "u", "s">>),
     Identifier(<<"x">>),
     CallExpression(<<"g", "e", "t", "S", "t", "a", "t", "e">>)}

Literal(value) == [type |-> "Literal", value |-> value]

\* the case lists tried: literals, and the identifier IDLE in place of 'idle'
CaseLists ==
    {<<>>, <<Literal("idle")>>, <<Literal("busy"), Literal("idle")>>,
     <<Literal("idle"), Literal("busy"), Literal("failed")>>,
     <<Literal("off")>>, <<Literal("open"), Literal("idle")>>, <<Literal("other")>>,
     <<[type |-> "Identifier", value |-> "idle"], Literal("busy")>>}

Switches == {Switch(d, cases) : d \in Discriminants, cases \in CaseLists}

SwitchLists ==
    {<<>>} \cup {<<s>> : s \in Switches}
        \cup {<<s, Switch(Identifier(<<"s", "t", "e", "p">>), <<Literal("idle")>>)>> : s \in Switches}

StateCoverageInit ==
    /\ \E states \in StateFileLists :
        installed \in {<<>>, <<LoadedPackage(SpecA, <<>>, <<>>, states)>>}
    /\ listError = FALSE
    /\ optSpec = "idle"
    /\ \E switches \in SwitchLists : sourceFiles = <<FileWithSwitches("f1", <<>>, {}, switches)>>
    /\ checkResult = CheckNotRun
    /\ entityMatchReports = LintNotRun
    /\ stateCoverageReports = LintNotRun

LintIdle ==
    /\ entityMatchReports = LintNotRun
    /\ stateCoverageReports = LintNotRun

-----------------------------------------------------------------------------
(* `specpm install`: installFromRegistry, installFromLocalPath, generateLockfile *)

\* the files of the package installed, and the versions before and after
PkgFiles == {"spec.yaml", "e.json"}
OldVersion == "1.0.0"
NewVersion == "2.0.0"

\* .specpm/specs/@scope/name: per file the version of its content, "" when
\* the file does not exist
TargetDir(exists, files) == [exists |-> exists, files |-> files]
NoTargetDir == TargetDir(FALSE, [f \in PkgFiles |-> ""])

\* specpm.yaml: the entries of the package in dependencies and devDependencies
ProjectManifest(exists, dependencies, devDependencies) ==
    [exists |-> exists, dependencies |-> dependencies, devDependencies |-> devDependencies]

InstallNotDone == [done |-> FALSE, ok |-> FALSE, threw |-> FALSE, error |-> ""]
InstallError(error) == [done |-> TRUE, ok |-> FALSE, threw |-> FALSE, error |-> error]
InstallOk == [done |-> TRUE, ok |-> TRUE, threw |-> FALSE, error |-> ""]
InstallThrew == [done |-> TRUE, ok |-> FALSE, threw |-> TRUE, error |-> ""]

\* loadProjectManifest(cwd): the error, "" when it returns the manifest
loadProjectManifest == IF projectManifest.exists THEN "" ELSE "Not a SpecPM project"

\* the install ends here with a result
InstallEnds(result) ==
    /\ installPc' = "done"
    /\ installResult' = result

InstallGoes(pc) ==
    /\ installPc' = pc
    /\ UNCHANGED installResult

\* installFromRegistry up to the download: the project manifest, the registry
\* URL, the package name, the metadata of the package, options.dryRun
InstallFromRegistry ==
    /\ installPc = "start"
    /\ \E saveDev \in BOOLEAN, dryRun \in BOOLEAN, registry \in {"set", ""},
          name \in {"@s/p", "p"}, meta \in {"200", "404", "500", "no versions"} :
        LET error ==
                IF loadProjectManifest # "" THEN loadProjectManifest
                ELSE IF registry = "" THEN "No registry configured"
                ELSE IF name = "p" THEN "Invalid package name"
                ELSE IF meta = "404" THEN "not found in registry"
                ELSE IF meta = "500" THEN "Registry error"
                ELSE IF meta = "no versions" THEN "No versions found"
                ELSE ""
        IN  /\ installOpts' = [saveDev |-> saveDev, source |-> "registry"]
            /\ IF error # "" THEN InstallEnds(InstallError(error))
               ELSE IF dryRun THEN InstallEnds(InstallOk)
               ELSE InstallGoes("download")
    /\ UNCHANGED <<specsDir, projectManifest, lockfile, installBefore>>
    /\ UNCHANGED NotInst

\* the tarball is fetched and its sha256 compared with versionMeta.integrity
Download ==
    /\ installPc = "download"
    /\ \E tarball \in {"intact", "corrupt", "404", "network down"} :
        IF tarball = "intact" THEN InstallGoes("extract")
        ELSE IF tarball = "corrupt" THEN InstallEnds(InstallError("Integrity check failed"))
        ELSE IF tarball = "404" THEN InstallEnds(InstallError("Failed to download tarball"))
        ELSE InstallEnds(InstallThrew)
    /\ UNCHANGED <<specsDir, projectManifest, lockfile, installOpts, installBefore>>
    /\ UNCHANGED NotInst

\* the target directory after the files of written were put into it
FilesPut(written) ==
    TargetDir(TRUE, [f \in PkgFiles |-> IF f \in written THEN NewVersion ELSE specsDir.files[f]])

\* mkdir(targetDir) and the files put into it by tar or cp, which may fail
\* before any file, or after some of them
PutFiles(next) ==
    \E how \in {"done", "mkdir fails", "fails"} :
        IF how = "done"
        THEN /\ specsDir' = FilesPut(PkgFiles)
             /\ InstallGoes(next)
        ELSE IF how = "mkdir fails"
        THEN /\ UNCHANGED specsDir
             /\ InstallEnds(InstallThrew)
        ELSE /\ \E written \in (SUBSET PkgFiles) \ {PkgFiles} : specsDir' = FilesPut(written)
             /\ InstallEnds(InstallThrew)

\* mkdir(targetDir), then tar xzf into it
Extract ==
    /\ installPc = "extract"
    /\ PutFiles("manifest")
    /\ UNCHANGED <<projectManifest, lockfile, installOpts, installBefore>>
    /\ UNCHANGED NotInst

\* installFromLocalPath up to the copy: the project manifest, loadSpecPackage
\* of the source, the package name, options.dryRun
InstallFromLocalPath ==
    /\ installPc = "start"
    /\ \E saveDev \in BOOLEAN, dryRun \in BOOLEAN, source \in {"loads", "invalid"},
          name \in {"@s/p", "p"} :
        LET error ==
                IF loadProjectManifest # "" THEN loadProjectManifest
                ELSE IF source = "invalid" THEN "Invalid spec package"
                ELSE IF name = "p" THEN "Invalid package name"
                ELSE ""
        IN  /\ installOpts' = [saveDev |-> saveDev, source |-> "local"]
            /\ IF error # "" THEN InstallEnds(InstallError(error))
               ELSE IF dryRun THEN InstallEnds(InstallOk)
               ELSE InstallGoes("copy")
    /\ UNCHANGED <<specsDir, projectManifest, lockfile, installBefore>>
    /\ UNCHANGED NotInst

\* mkdir(targetDir), then cp(resolvedSource, targetDir)
Copy ==
    /\ installPc = "copy"
    /\ PutFiles("manifest")
    /\ UNCHANGED <<projectManifest, lockfile, installOpts, installBefore>>
    /\ UNCHANGED NotInst

\* manifest[depKey][packageName] = version; writeFile(specpm.yaml)
WriteManifest ==
    /\ installPc = "manifest"
    /\ \E written \in BOOLEAN :
        IF written
        THEN /\ projectManifest' =
                    IF installOpts.saveDev
                    THEN [projectManifest EXCEPT !.devDependencies = NewVersion]
                    ELSE [projectManifest EXCEPT !.dependencies = NewVersion]
             /\ InstallGoes("lockfile")
        ELSE /\ UNCHANGED projectManifest
             /\ InstallEnds(InstallThrew)
    /\ UNCHANGED <<specsDir, lockfile, installOpts, installBefore>>
    /\ UNCHANGED NotInst

\* generateLockfile(cwd) and the return of the install: a package from the
\* registry that loadSpecPackage rejects makes listInstalledSpecs fail, and
\* the lockfile is then left as it is
generateLockfile ==
    /\ installPc = "lockfile"
    /\ \E how \in {"written", "write fails"}
                      \cup (IF installOpts.source = "registry" THEN {"list fails"} ELSE {}) :
        IF how = "written"
        THEN /\ lockfile' = specsDir.files["spec.yaml"]
             /\ InstallEnds(InstallOk)
        ELSE IF how = "list fails"
        THEN /\ UNCHANGED lockfile
             /\ InstallEnds(InstallOk)
        ELSE /\ UNCHANGED lockfile
             /\ InstallEnds(InstallThrew)
    /\ UNCHANGED <<specsDir, projectManifest, installOpts, installBefore>>
    /\ UNCHANGED NotInst

InstIdle ==
    /\ specsDir = NoTargetDir
    /\ projectManifest = ProjectManifest(FALSE, "", "")
    /\ lockfile = ""
    /\ installPc = "idle"
    /\ installOpts = [saveDev |-> FALSE, source |-> ""]
    /\ installResult = InstallNotDone
    /\ installBefore = <<>>

\* the directory is no project, a project without the package, or a project
\* with the old version of the package installed as a dependency or a
\* devDependency
InstInit ==
    /\ \E before \in
            {<<NoTargetDir, ProjectManifest(FALSE, "", ""), "">>,
             <<NoTargetDir, ProjectManifest(TRUE, "", ""), "">>,
             <<TargetDir(TRUE, [f \in PkgFiles |-> OldVersion]),
               ProjectManifest(TRUE, OldVersion, ""), OldVersion>>,
             <<TargetDir(TRUE, [f \in PkgFiles |-> OldVersion]),
               ProjectManifest(TRUE, "", OldVersion), OldVersion>>} :
        /\ specsDir = before[1]
        /\ projectManifest = before[2]
        /\ lockfile = before[3]
        /\ installBefore = before
    /\ installPc = "start"
    /\ installOpts = [saveDev |-> FALSE, source |-> ""]
    /\ installResult = InstallNotDone

-----------------------------------------------------------------------------
(* The cache of installed specs: loadInstalledSpecs, clearSpecCache *)

\* the calls of loadInstalledSpecs and clearSpecCache made
MaxCalls == 3

Roots == {"r1", "r2"}

\* .specpm/specs of a project root: whether it exists, whether it can be
\* read, and its package directories in readdir order
SpecsDirectory(exists, readable, dirs) == [exists |-> exists, readable |-> readable, dirs |-> dirs]
PackageDir(name, loads) == [name |-> name, loads |-> loads]

\* no directory, package a, package a and a package b whose spec.yaml does
\* not parse, and a directory that cannot be read
DiskStates ==
    {SpecsDirectory(FALSE, TRUE, <<>>),
     SpecsDirectory(TRUE, TRUE, <<PackageDir("a", TRUE)>>),
     SpecsDirectory(TRUE, TRUE, <<PackageDir("a", TRUE), PackageDir("b", FALSE)>>),
     SpecsDirectory(TRUE, FALSE, <<>>)}

\* an entry of specsCache, or that the Map has none for the key
Cached(specs) == [has |-> TRUE, packages |-> specs]
NotCached == [has |-> FALSE, packages |-> <<>>]

\* the packages loadSpecPackageSync returns for the directories, in order
LoadedFrom(directory) ==
    LET loadable == SelectSeq(directory.dirs, LAMBDA d : d.loads)
    IN  [i \in 1..Len(loadable) |-> loadable[i].name]

\* a call: what it returned, whether it threw, whether it read the
\* filesystem and whether it set the cache entry
CacheCall(op, root, returned, threw, read, wrote) ==
    [op |-> op, root |-> root, returned |-> returned, threw |-> threw,
     read |-> read, wrote |-> wrote]

\* specsCache.has(projectRoot), were the cache never consulted
CacheHas_Never(root) == FALSE
\* specsCache.has(projectRoot)
CacheHas(root) == specsCache[root].has

\* the entry specsCache.set stores
CacheSet(root, specs) == [specsCache EXCEPT ![root] = Cached(specs)]

\* loadInstalledSpecs(projectRoot)
LoadInstalledSpecs ==
    /\ Len(cacheLog) < MaxCalls
    /\ \E root \in Roots :
        IF CacheHas(root)
        THEN /\ cacheLog' = Append(cacheLog, CacheCall("load", root, specsCache[root].packages,
                                                       FALSE, FALSE, FALSE))
             /\ UNCHANGED specsCache
        ELSE IF ~disk[root].exists
        THEN /\ cacheLog' = Append(cacheLog, CacheCall("load", root, <<>>, FALSE, TRUE, TRUE))
             /\ specsCache' = CacheSet(root, <<>>)
        ELSE IF ~disk[root].readable
        THEN /\ cacheLog' = Append(cacheLog, CacheCall("load", root, <<>>, TRUE, TRUE, FALSE))
             /\ UNCHANGED specsCache
        ELSE /\ cacheLog' = Append(cacheLog, CacheCall("load", root, LoadedFrom(disk[root]),
                                                       FALSE, TRUE, TRUE))
             /\ specsCache' = CacheSet(root, LoadedFrom(disk[root]))
    /\ UNCHANGED disk
    /\ UNCHANGED NotCache

\* clearSpecCache()
ClearSpecCache ==
    /\ Len(cacheLog) < MaxCalls
    /\ specsCache' = [root \in Roots |-> NotCached]
    /\ cacheLog' = Append(cacheLog, CacheCall("clear", "", <<>>, FALSE, FALSE, FALSE))
    /\ UNCHANGED disk
    /\ UNCHANGED NotCache

\* a package is installed into or removed from a project between two calls
DiskChanges ==
    /\ Len(cacheLog) < MaxCalls
    /\ \E root \in Roots, directory \in DiskStates :
        /\ directory # disk[root]
        /\ disk' = [disk EXCEPT ![root] = directory]
    /\ UNCHANGED <<specsCache, cacheLog>>
    /\ UNCHANGED NotCache

CacheIdle ==
    /\ specsCache = <<>>
    /\ disk = <<>>
    /\ cacheLog = <<>>

\* the module has just been loaded: the Map is empty
CacheInit ==
    /\ specsCache = [root \in Roots |-> NotCached]
    /\ disk \in [Roots -> DiskStates]
    /\ cacheLog = <<>>

-----------------------------------------------------------------------------
(* `specpm ci` *)

\* an installed directory under .specpm/specs: whether loadSpecPackage
\* accepts it, whether verifyL0 passes on it, and the manifest's version and
\* the constraints of the package it holds
SpecDir(directory, version, loads, l0Passes, constraints) ==
    [directory |-> directory, version |-> version, loads |-> loads,
     l0Passes |-> l0Passes, constraints |-> constraints]

\* the SpecPackage loadSpecPackage returns for a directory
SpecPackageOf(d) == InstalledPackage(d.directory, d.constraints, <<"a">>)

\* listInstalledSpecs(projectRoot): no .specpm/specs gives an empty list;
\* the directories that do not load are dropped unless none loads
listInstalledSpecs(hasSpecsDir, dirs) ==
    LET loaded == SelectSeq(dirs, LAMBDA d : d.loads)
        errors == SelectSeq(dirs, LAMBDA d : ~d.loads)
    IN  IF ~hasSpecsDir THEN [ok |-> TRUE, value |-> <<>>]
        ELSE IF errors # <<>> /\ loaded = <<>> THEN [ok |-> FALSE, value |-> <<>>]
        ELSE [ok |-> TRUE, value |-> loaded]

\* specpm-team.yaml: absent, rejected by loadTeamConfig, or a configuration
\* with its required specs and its enforced targets
TeamFile(kind, required, enforced, targets) ==
    [kind |-> kind, required |-> required, enforced |-> enforced, targets |-> targets]
NoTeamFile == TeamFile("absent", <<>>, FALSE, {})
InvalidTeamFile == TeamFile("invalid", <<>>, FALSE, {})
TeamConfig(required, enforced, targets) == TeamFile("config", required, enforced, targets)

\* parseRequirement(spec): the name and the range, <<>> for none
ParsedRequirement(name, versionRange) == [name |-> name, versionRange |-> versionRange]

TeamCheckError == [ok |-> FALSE, passed |-> FALSE, missing |-> {}, outdated |-> {}, enforcementIssues |-> {}]
TeamCheckResult(missing, outdated, enforcementIssues) ==
    [ok |-> TRUE, passed |-> missing = {} /\ outdated = {} /\ enforcementIssues = {},
     missing |-> missing, outdated |-> outdated, enforcementIssues |-> enforcementIssues]

\* teamCheckCommand({}): an installed list that cannot be read counts as empty
teamCheckCommand(team, specsResult, projectTargets) ==
    LET listed == IF specsResult.ok THEN specsResult.value ELSE <<>>
        at(name) == {i \in 1..Len(listed) : listed[i].directory = name}
        installedVersion(name) ==
            listed[CHOOSE i \in at(name) : \A j \in at(name) : j <= i].version
        reqs == {team.required[i] : i \in 1..Len(team.required)}
        missing == {req.name : req \in {q \in reqs : at(q.name) = {}}}
        outdated == {req.name : req \in {q \in reqs :
                        /\ at(q.name) # {}
                        /\ q.versionRange # <<>>
                        /\ ~satisfiesRange(installedVersion(q.name), q.versionRange)}}
        enforcementIssues == IF team.enforced /\ team.targets # {}
                             THEN projectTargets \ team.targets ELSE {}
    IN  IF team.kind = "invalid" THEN TeamCheckError
        ELSE IF team.kind = "absent" THEN TeamCheckResult({}, {}, {})
        ELSE TeamCheckResult(missing, outdated, enforcementIssues)

CiOptions(verify, check, team, strict) ==
    [verify |-> verify, check |-> check, team |-> team, strict |-> strict]

CiNotRun == [ran |-> FALSE, ok |-> FALSE, passed |-> FALSE, verified |-> <<>>,
             checkResults |-> <<>>, teamIssues |-> {}]
CiError == [CiNotRun EXCEPT !.ran = TRUE]
CiResult(passed, verified, checkResults, teamIssues) ==
    [ran |-> TRUE, ok |-> TRUE, passed |-> passed, verified |-> verified,
     checkResults |-> checkResults, teamIssues |-> teamIssues]

\* the condition under which the verify step reaches its loop
VerifyRuns(env, specsResult) ==
    env.options.verify /\ env.hasSpecsDir /\ specsResult.ok

\* ciCommand(options): the three steps, each one skipped when its command
\* returns an error
ciCommand(env) ==
    LET specsResult == listInstalledSpecs(env.hasSpecsDir, env.dirs)
        loaded == [i \in 1..Len(specsResult.value) |-> SpecPackageOf(specsResult.value[i])]
        verified == IF VerifyRuns(env, specsResult) THEN specsResult.value ELSE <<>>
        verifyFailed == \E i \in 1..Len(verified) : ~verified[i].l0Passes
        checked == checkCommand(~specsResult.ok, loaded, "", env.files)
        checkCounts == env.options.check /\ checked.ok
        checkFailed == /\ checkCounts
                       /\ \/ checked.summary.fail > 0
                          \/ env.options.strict /\ checked.summary.warn > 0
        teamResult == teamCheckCommand(env.team, specsResult, env.targets)
        teamFailed == env.options.team /\ teamResult.ok /\ ~teamResult.passed
    IN  IF ~env.hasManifest THEN CiError
        ELSE CiResult(~(verifyFailed \/ checkFailed \/ teamFailed),
                      [i \in 1..Len(verified) |-> verified[i].directory],
                      IF checkCounts THEN checked.results ELSE <<>>,
                      IF teamFailed
                      THEN teamResult.missing \cup teamResult.outdated \cup teamResult.enforcementIssues
                      ELSE {})

\* `specpm ci`
CiCommand ==
    /\ ciEnv # <<>>
    /\ ~ciResult.ran
    /\ ciResult' = ciCommand(ciEnv)
    /\ UNCHANGED ciEnv
    /\ UNCHANGED NotCi

-----------------------------------------------------------------------------
(* Projects `specpm ci` is run in *)

\* @s/p loads and passes L0; @s/q loads and fails L0, or does not load
GoodDir == SpecDir("p", V100, TRUE, TRUE, <<EntityConstraint(TRUE, <<"a">>)>>)
FailingDir == SpecDir("q", V100, TRUE, FALSE, <<>>)
BrokenDir == SpecDir("q", V100, FALSE, FALSE, <<>>)

CiDirLists == {<<>>, <<GoodDir>>, <<FailingDir>>, <<BrokenDir>>,
               <<GoodDir, FailingDir>>, <<GoodDir, BrokenDir>>}

CiFileLists == {<<>>, <<SourceFile("f1", <<Interface("User", {"a"})>>, {Log})>>,
                <<SourceFile("f1", <<Interface("User", {})>>, {Log})>>}

TeamFiles == {NoTeamFile, InvalidTeamFile,
              TeamConfig(<<ParsedRequirement("p", <<>>)>>, FALSE, {}),
              TeamConfig(<<ParsedRequirement("p", Caret2)>>, FALSE, {}),
              TeamConfig(<<>>, TRUE, {"claude"})}

CiIdle ==
    /\ ciEnv = <<>>
    /\ ciResult = <<>>

CiInit ==
    /\ \E verify \in BOOLEAN, check \in BOOLEAN, team \in BOOLEAN, strict \in BOOLEAN,
          hasManifest \in BOOLEAN, hasSpecsDir \in BOOLEAN, dirs \in CiDirLists,
          files \in CiFileLists, teamFile \in TeamFiles, targets \in {{}, {"cursor"}} :
        /\ dirs # <<>> => hasSpecsDir
        /\ ciEnv = [options |-> CiOptions(verify, check, team, strict),
                    hasManifest |-> hasManifest, hasSpecsDir |-> hasSpecsDir, dirs |-> dirs,
                    files |-> files, team |-> teamFile, targets |-> targets]
    /\ ciResult = CiNotRun

-----------------------------------------------------------------------------
(* Specifications *)

SvNext == SatisfiesCall

SemverInit == SvInit /\ ResIdle /\ PkgIdle /\ ChkIdle /\ RegIdle /\ LintIdle /\ InstIdle /\ CacheIdle /\ CiIdle

SpecSemver == SemverInit /\ [][SvNext]_vars

ResNext == Start \/ RootCall \/ DepCall \/ ReturnOk \/ ReturnError \/ FinishError \/ FinishOk

ResolveInit == ResInit /\ SvIdle /\ PkgIdle /\ ChkIdle /\ RegIdle /\ LintIdle /\ InstIdle /\ CacheIdle /\ CiIdle

SpecResolve == ResolveInit /\ [][ResNext]_vars

TerminationNext == Invoke \/ ResNext

TerminationInit ==
    ResIdle /\ SvIdle /\ PkgIdle /\ ChkIdle /\ RegIdle /\ LintIdle /\ InstIdle /\ CacheIdle /\ CiIdle

\* resolveDependencies runs on one thread and never waits between two steps:
\* a step that can be taken is taken
SpecResolveLive == TerminationInit /\ [][TerminationNext]_vars /\ WF_vars(ResNext)

PeerResolveInit == PeerInit /\ SvIdle /\ PkgIdle /\ ChkIdle /\ RegIdle /\ LintIdle /\ InstIdle /\ CacheIdle /\ CiIdle

SpecPeerResolve == PeerResolveInit /\ [][ResNext]_vars

PkgNext == VerifyL0 \/ VerifyL1 \/ VerifyCommand \/ LoadSpecPackage

VerifyInit == PkgInit /\ SvIdle /\ ResIdle /\ ChkIdle /\ RegIdle /\ LintIdle /\ InstIdle /\ CacheIdle /\ CiIdle

SpecVerify == VerifyInit /\ [][PkgNext]_vars

ConsistencyNext == VerifyL0 \/ VerifyL1

ConsistencyInit == ConsistencyDirInit /\ SvIdle /\ ResIdle /\ ChkIdle /\ RegIdle /\ LintIdle /\ InstIdle /\ CacheIdle /\ CiIdle

SpecConsistency == ConsistencyInit /\ [][ConsistencyNext]_vars

ChkNext == CheckCommand

CheckInit == ChkInit /\ SvIdle /\ ResIdle /\ PkgIdle /\ RegIdle /\ LintIdle /\ InstIdle /\ CacheIdle /\ CiIdle

SpecCheck == CheckInit /\ [][ChkNext]_vars

RegNext ==
    Receive \/ WindowExpires \/ CheckVersion \/ VerifyTarball \/ StoreTarball \/ RecordVersion

RegistryInit == RegInit /\ SvIdle /\ ResIdle /\ PkgIdle /\ ChkIdle /\ LintIdle /\ InstIdle /\ CacheIdle /\ CiIdle

SpecRegistry == RegistryInit /\ [][RegNext]_vars

EntityMatchNext == CheckCommand \/ EntityMatch

EntityInit == EntityMatchInit /\ SvIdle /\ ResIdle /\ PkgIdle /\ RegIdle /\ InstIdle /\ CacheIdle /\ CiIdle

SpecEntityMatch == EntityInit /\ [][EntityMatchNext]_vars

StateCoverageNext == StateCoverage

CoverageInit == StateCoverageInit /\ SvIdle /\ ResIdle /\ PkgIdle /\ RegIdle /\ InstIdle /\ CacheIdle /\ CiIdle

SpecStateCoverage == CoverageInit /\ [][StateCoverageNext]_vars

InstNext ==
    InstallFromRegistry \/ Download \/ Extract \/ InstallFromLocalPath \/ Copy
        \/ WriteManifest \/ generateLockfile

InstallInit ==
    InstInit /\ SvIdle /\ ResIdle /\ PkgIdle /\ ChkIdle /\ RegIdle /\ LintIdle /\ CacheIdle /\ CiIdle

SpecInstall == InstallInit /\ [][InstNext]_vars

CacheNext == LoadInstalledSpecs \/ ClearSpecCache \/ DiskChanges

SpecsCacheInit ==
    CacheInit /\ SvIdle /\ ResIdle /\ PkgIdle /\ ChkIdle /\ RegIdle /\ LintIdle /\ InstIdle /\ CiIdle

SpecCache == SpecsCacheInit /\ [][CacheNext]_vars

CiNext == CiCommand

CiCommandInit ==
    CiInit /\ SvIdle /\ ResIdle /\ PkgIdle /\ ChkIdle /\ RegIdle /\ LintIdle /\ InstIdle /\ CacheIdle

SpecCi == CiCommandInit /\ [][CiNext]_vars

-----------------------------------------------------------------------------
(* The requirement graph of a resolution *)

RootNames == {rootDependencies[i].name : i \in 1..Len(rootDependencies)}

\* the packages a catalog entry requires
Succ(n) ==
    IF IsInstalled(n) THEN {ManifestDeps(n)[i].name : i \in 1..Len(ManifestDeps(n))} ELSE {}

RECURSIVE Closure(_)
Closure(S) ==
    LET T == S \cup UNION {Succ(n) : n \in S}
    IN  IF T = S THEN S ELSE Closure(T)

\* the package names reachable from the root requirements
Reachable == Closure(RootNames)

Acyclic == \A n \in Reachable : n \notin Closure(Succ(n))

\* every requirement of the root map and of a reachable manifest
Requirements ==
    {rootDependencies[i] : i \in 1..Len(rootDependencies)}
        \cup UNION {{ManifestDeps(n)[i] : i \in 1..Len(ManifestDeps(n))} :
                        n \in {m \in Reachable : IsInstalled(m)}}

Satisfied(req) ==
    IsInstalled(req.name) /\ satisfiesRange(installedSpecs[req.name].version, req.range)

ValueNames == {outcome.value[i].name : i \in 1..Len(outcome.value)}

Calls == {examined[i] : i \in 1..Len(examined)}

\* s is a path of the requirement graph that starts at a root requirement
IsChain(s) ==
    /\ Len(s) >= 1
    /\ s[1] \in RootNames
    /\ \A i \in 1..(Len(s) - 1) : s[i + 1] \in Succ(s[i])

-----------------------------------------------------------------------------
(* Claims *)

\* C1: for an acyclic requirement graph whose every required package is in
\* the catalog at a version satisfying every range placed on it,
\* resolveDependencies succeeds and returns exactly one entry per package
\* name reachable from the root requirements.
C1_OneEntryPerName ==
    (rpc = "done" /\ ~listFails /\ Acyclic /\ \A req \in Requirements : Satisfied(req))
        => /\ outcome.ok
           /\ Cardinality(ValueNames) = Len(outcome.value)
           /\ ValueNames = Reachable
           /\ \A i \in 1..Len(outcome.value) :
                outcome.value[i].version = installedSpecs[outcome.value[i].name].version

\* a diamond: three packages resolved, one of them required a second time
C1_Witness ==
    /\ rpc = "done"
    /\ outcome.ok
    /\ Acyclic
    /\ Len(outcome.value) = 3
    /\ \E c \in Calls : c.kind = "memo"

\* C2: when resolution reaches a dependency cycle (resolve is called for a
\* name on the current path) resolveDependencies fails with a
\* circular-dependency error whose chain is the whole path from the root
\* requirement to the repeated name, the repeated name included.
C2_CycleReported ==
    \A c \in Calls :
        (rpc = "done" /\ c.onPath)
            => /\ ~outcome.ok
               /\ outcome.error.type = "circular-dependency"
               /\ outcome.error.chain = c.chain \o <<c.name>>
               /\ IsChain(outcome.error.chain)
               /\ \E i \in 1..Len(c.chain) : c.chain[i] = c.name

\* a cycle of two packages reached below a third one
C2_Witness ==
    /\ rpc = "done"
    /\ ~outcome.ok
    /\ outcome.error.type = "circular-dependency"
    /\ Len(outcome.error.chain) = 4
    /\ outcome.error.chain[2] = outcome.error.chain[4]

\* a requirement that names a package resolve() has committed, with a range
\* that excludes the committed version
Unmet(c) == c.committed /\ ~satisfiesRange(installedSpecs[c.name].version, c.range)

IsConflictOf(e, c) ==
    /\ e.type = "version-conflict"
    /\ e.name = c.name
    /\ e.version = installedSpecs[c.name].version
    /\ e.range = c.range

\* success is never returned with a requirement whose range is not met
NoUnmetOnSuccess ==
    (rpc = "done" /\ outcome.ok) => \A req \in Requirements : Satisfied(req)

\* C3 as stated: a package required again with a range that excludes the
\* committed version always makes resolveDependencies fail with a
\* version-conflict error naming the package, the version and the range, and
\* success is never returned with an unsatisfied range.
C3_AsStated ==
    /\ NoUnmetOnSuccess
    /\ \A c \in Calls :
         (rpc = "done" /\ Unmet(c)) => (~outcome.ok /\ IsConflictOf(outcome.error, c))

\* C3 amended: the version-conflict error is the outcome when the package
\* required again is committed and no longer on the current path; a
\* requirement on a package still on the path fails as a circular dependency
\* whatever its range.  Success is never returned with an unsatisfied range.
C3_ConflictOffPath ==
    /\ NoUnmetOnSuccess
    /\ \A c \in Calls :
         /\ (rpc = "done" /\ Unmet(c) /\ ~c.onPath)
                => (~outcome.ok /\ IsConflictOf(outcome.error, c))
         /\ (rpc = "done" /\ Unmet(c) /\ c.onPath)
                => (~outcome.ok /\ outcome.error.type = "circular-dependency")

\* two packages require a third; the second range excludes the version the
\* first one committed
C3_Witness ==
    /\ rpc = "done"
    /\ ~outcome.ok
    /\ outcome.error.type = "version-conflict"
    /\ \E c \in Calls : Unmet(c) /\ ~c.onPath /\ Len(c.chain) = 1 /\ Len(resolved) = 3

\* C7: satisfiesRange(V, V) is true for every valid version V
\* (major.minor.patch with an optional -prerelease suffix).
C7_Reflexive ==
    (svResult \in {"true", "false"} /\ svVersion \in ValidVersions /\ svRange = svVersion)
        => svResult = "true"


-----------------------------------------------------------------------------
(* C4: the levels of the verification pipeline *)

\* C4: L1 checks are never executed on a package for which L0 did not pass:
\* no directory has both an L0 result that did not pass and an L1 run that
\* executed its checks and returned.
C4_L1OnlyAfterL0Passed ==
    (l1Result.ran /\ ~l1Result.threw) => ~(l0Result.ran /\ ~l0Result.passed)

-----------------------------------------------------------------------------
(* C5: verifyL0 runs to completion *)

\* C5: for a directory whose manifest file exists, verifyL0 never throws: it
\* returns a result, whatever shape the fields of the manifest have.
C5_L0NeverThrows ==
    (l0Result.ran /\ dir.manifest # "missing") => ~l0Result.threw

-----------------------------------------------------------------------------
(* C6: loadSpecPackage on a malformed package *)

\* a referenced entity, state-machine or constraints file that exists but
\* does not parse
UnparsableReferenced(d) ==
    /\ d.manifest = "object"
    /\ \E i \in 1..Len(allPaths(d)) :
        /\ allPaths(d)[i].isStr
        /\ d.files[allPaths(d)[i].v].k = "garbage"

\* C6: loadSpecPackage never throws, and when a referenced file exists but
\* cannot be parsed it returns a non-empty list of errors instead of a package.
C6_LoadNeverThrows ==
    loadResult.ran =>
        /\ ~loadResult.threw
        /\ UnparsableReferenced(dir) => (~loadResult.ok /\ loadResult.errors # <<>>)

-----------------------------------------------------------------------------
(* C8: the fails and the pass of checkEntity for one declaration *)

SeqToSet(seq) == {seq[i] : i \in 1..Len(seq)}

\* the results of the report for one constraint of one package
ResultsOf(pkg, id) ==
    SelectSeq(checkResult.results, LAMBDA r : r.package = pkg /\ r.constraint = id)

\* the fields of check.requiredFields and schema.required the declaration lacks
AbsentFields(c, schema, iface) ==
    ((IF c.hasRequiredFields THEN SeqToSet(c.requiredFields) ELSE {})
        \cup SeqToSet(schema.required)) \ iface.props

\* C8: for an entity constraint whose schema name is carried by one
\* declaration, the report holds exactly one fail citing each field of
\* check.requiredFields and schema.required that the declaration lacks, no
\* other fail, and a pass exactly when no such field is absent.
C8_OneFailPerAbsentField ==
    (checkResult.ran /\ checkResult.ok) =>
        \A i \in 1..Len(installed) : \A j \in 1..Len(installed[i].constraints) :
            LET spec == installed[i]
                c == spec.constraints[j]
                decls == MatchingInterfaces(sourceFiles, c.entity)
                rs == ResultsOf(spec.name, c.id)
                absent == AbsentFields(c, spec.entities[1], decls[1].iface)
            IN  (spec.name \in SeqToSet(checkResult.specs) /\ c.type = "entity" /\ Len(decls) = 1)
                => /\ \A f \in Fields :
                        Cardinality({k \in 1..Len(rs) : rs[k].status = "fail" /\ rs[k].about = f})
                            = IF f \in absent THEN 1 ELSE 0
                   /\ Cardinality({k \in 1..Len(rs) : rs[k].status = "pass"})
                            = IF absent = {} THEN 1 ELSE 0

-----------------------------------------------------------------------------
(* C9: the order of the results of a report *)

\* the position of a package name, a constraint id and a file path in
\* ascending order; a result without file sorts first
PackageRank(name) == IF name = SpecA THEN 1 ELSE 2
ConstraintRank(id) == IF id = "c1" THEN 1 ELSE 2
FileRank(path) == IF path = "" THEN 0 ELSE IF path = "f1" THEN 1 ELSE 2

\* r comes no later than q by package, then constraint id, then file
InReportOrder(r, q) ==
    \/ PackageRank(r.package) < PackageRank(q.package)
    \/ /\ r.package = q.package
       /\ \/ ConstraintRank(r.constraint) < ConstraintRank(q.constraint)
          \/ /\ r.constraint = q.constraint
             /\ FileRank(r.file) <= FileRank(q.file)

\* C9: the results of a report are ordered by package, then constraint id,
\* then file, whatever order the packages, their constraints and the source
\* files were listed in.
C9_ResultsOrdered ==
    (checkResult.ran /\ checkResult.ok) =>
        \A i \in 1..Len(checkResult.results) : \A j \in i..Len(checkResult.results) :
            InReportOrder(checkResult.results[i], checkResult.results[j])

-----------------------------------------------------------------------------
(* C10: a published version is immutable *)

Finished(r) == r.pc = "done"

\* a step of the handler of a request that was received after a publish of
\* its version had succeeded
LaterRequestSteps ==
    \E i \in 1..Len(requests) : requests[i].later /\ requests'[i] # requests[i]

\* what the registry stores of the versions
Stored == <<versions, tarballs>>

-----------------------------------------------------------------------------
(* C11: the first error ends the resolution *)

\* C11: when a requirement fails, resolveDependencies stops at that first
\* error and returns only the error: no requirement is examined after the
\* failing one, the error returned is the error of that requirement, and no
\* list of resolved packages comes with it.
C11_FirstErrorOnly ==
    /\ \A i \in 1..Len(examined) : examined[i].kind = "error" => i = Len(examined)
    /\ (rpc = "done" /\ ~outcome.ok) =>
        /\ outcome.value = <<>>
        /\ outcome.error # NoError
        /\ ~listFails =>
            /\ examined # <<>>
            /\ examined[Len(examined)].kind = "error"
            /\ outcome.error = examined[Len(examined)].error
    /\ (rpc = "done" /\ outcome.ok) => \A i \in 1..Len(examined) : examined[i].kind # "error"

\* a resolution that failed below the root after a package had been
\* committed, with a root requirement still to examine
C11_Witness ==
    /\ rpc = "done"
    /\ ~outcome.ok
    /\ resolved # <<>>
    /\ Len(examined) >= 2
    /\ rootIdx <= Len(rootDependencies)
    /\ outcome.error.type = "not-found"

-----------------------------------------------------------------------------
(* C12: passed and the severities of the issues *)

\* the result was returned (the call did not throw)
WasReturned(r) == r.ran /\ ~r.threw

ErrorIssues(r) == {i \in 1..Len(r.issues) : r.issues[i].severity = "error"}
WarningIssues(r) == {i \in 1..Len(r.issues) : r.issues[i].severity = "warning"}

\* C12: for every result verifyL0 or verifyL1 returns, passed is true if and
\* only if no issue of the result has severity error; warnings alone never
\* make a level fail.
C12_PassedIffNoError ==
    \A r \in {l0Result, l1Result, cmdResult} :
        WasReturned(r) => (r.passed <=> ErrorIssues(r) = {})

\* verifyL1 returned L1-CONTEXT-PRIORITY warnings and nothing else, and passed;
\* verifyL0 returned errors for the same directory, and failed
C12_Witness ==
    /\ WasReturned(l1Result)
    /\ l1Result.passed
    /\ WarningIssues(l1Result) # {}
    /\ WasReturned(l0Result)
    /\ ~l0Result.passed
    /\ ErrorIssues(l0Result) # {}

-----------------------------------------------------------------------------
(* C13: constraints that name a state no machine declares *)

\* the entries of the constraints file of the directory
ConstraintsOf(d) ==
    IF d.constraints.t = "str" THEN d.files[d.constraints.s].constraints ELSE <<>>

\* the state machine files the manifest lists that parse
DeclaredMachines(d) ==
    {i \in 1..Len(OrEmpty(d.states)) : d.files[OrEmpty(d.states)[i].v].k = "machine"}

MachineAt(d, i) == d.files[OrEmpty(d.states)[i].v]

\* the states of all the machines the package declares
DeclaredStates(d) == UNION {MachineAt(d, i).states : i \in DeclaredMachines(d)}

\* the pattern constraints whose check.state no declared machine has
UnknownStateRefs(d) ==
    {i \in 1..Len(ConstraintsOf(d)) :
        /\ ~ConstraintsOf(d)[i].null
        /\ ConstraintsOf(d)[i].type = "pattern"
        /\ ConstraintsOf(d)[i].state # ""
        /\ ConstraintsOf(d)[i].state \notin DeclaredStates(d)}

IssuesWith(r, code) == {i \in 1..Len(r.issues) : r.issues[i].code = code}

\* C13: verifyL1 reports L1-CONSTRAINT-STATE-REF once for each pattern
\* constraint whose check.state is a state of none of the declared machines,
\* and for no other constraint.
C13_StateRefExactly ==
    WasReturned(l1Result) =>
        Cardinality(IssuesWith(l1Result, "L1-CONSTRAINT-STATE-REF"))
            = Cardinality(UnknownStateRefs(dir))

-----------------------------------------------------------------------------
(* C14: transitions to a state the machine does not have *)

IssuesAbout(r, code, file) ==
    {i \in 1..Len(r.issues) : r.issues[i].code = code /\ r.issues[i].file = file}

-----------------------------------------------------------------------------
(* C15: constraint entries sharing an id *)

\* the ids that n entries of the constraints file carry
IdsCarriedBy(d, n) ==
    {id \in {ConstraintsOf(d)[i].id : i \in 1..Len(ConstraintsOf(d))} \ {""} :
        Cardinality({i \in 1..Len(ConstraintsOf(d)) :
                        ~ConstraintsOf(d)[i].null /\ ConstraintsOf(d)[i].id = id}) = n}

\* C15: when two entries of the constraints file share one id (and no third
\* entry has it), verifyL0 returns a result with exactly one
\* L0-CONSTRAINT-DUPLICATE issue, whatever else the manifest and the
\* constraints file hold.
C15_OneDuplicateIssue ==
    (l0Result.ran /\ IdsCarriedBy(dir, 2) # {} /\ IdsCarriedBy(dir, 3) = {}) =>
        /\ WasReturned(l0Result)
        /\ Cardinality(IssuesWith(l0Result, "L0-CONSTRAINT-DUPLICATE"))
            = Cardinality(IdsCarriedBy(dir, 2))

-----------------------------------------------------------------------------
(* C16: type mismatches of declared fields *)

\* the fields an interface declares with a type text incompatible with the
\* type the schema declares for them
MismatchedFields(schema, iface) ==
    {f \in iface.props :
        /\ SchemaType(schema, f) # ""
        /\ ~isTypeCompatible(getInterfaceProperties(iface)[f], SchemaType(schema, f))}

\* the (package, constraint, schema, declaration) tuples the entity check visits
EntityChecksMade ==
    {t \in [p : 1..Len(installed), c : 1..2, i : 1..Len(sourceFiles), j : 1..1] :
        /\ t.c <= Len(installed[t.p].constraints)
        /\ installed[t.p].constraints[t.c].type = "entity"
        /\ installed[t.p].entities # <<>>
        /\ installed[t.p].entities[1].title = installed[t.p].constraints[t.c].entity
        /\ t.j <= Len(sourceFiles[t.i].interfaces)
        /\ sourceFiles[t.i].interfaces[t.j].name = installed[t.p].constraints[t.c].entity}

\* C16: once the standalone check and the lint rule have run, for every
\* declaration matching the entity of a constraint and every field it declares
\* with a type text incompatible with the schema's type, the results of the
\* check hold a fail about that field, and the lint rule reports a type
\* mismatch for that field with the expected type.
C16_TypeMismatchFails ==
    (checkResult.ran /\ checkResult.ok /\ entityMatchReports.ran) =>
        \A t \in EntityChecksMade :
            LET pkg == installed[t.p]
                iface == sourceFiles[t.i].interfaces[t.j]
            IN  \A f \in MismatchedFields(pkg.entities[1], iface) :
                    /\ \E r \in SeqToSet(ResultsOf(pkg.name, pkg.constraints[t.c].id)) :
                            r.status = "fail" /\ r.about = f
                    /\ t.i = 1 =>
                        \E m \in SeqToSet(entityMatchReports.messages) :
                            /\ m.messageId = "typeMismatch"
                            /\ m.field = f
                            /\ m.expected = SchemaType(pkg.entities[1], f)

-----------------------------------------------------------------------------
(* C17: unhandled states of a switch *)

\* the reports made for switch n that name the state and the machine
ReportsNaming(n, state, machine) ==
    {k \in 1..Len(stateCoverageReports.messages) :
        /\ stateCoverageReports.messages[k].node = n
        /\ stateCoverageReports.messages[k].state = state
        /\ stateCoverageReports.messages[k].machine = machine}

\* the machines declared by the installed packages: every state file, with the
\* name the rule gives it
DeclaredStateFiles ==
    Flatten([i \in 1..Len(installed) |-> installed[i].states])

NameOf(s) ==
    IF s.name # "" THEN s.name ELSE IF s.title # "" THEN s.title
    ELSE IF s.id # "" THEN s.id ELSE "unknown"

\* the string literals switch n handles
LiteralsOf(n) ==
    {c.value : c \in {d \in SeqToSet(sourceFiles[1].switches[n].cases) : d.type = "Literal"}}

\* the discriminant of switch n, lower-cased, contains state, status, phase or step
StateLikeSwitch(n) ==
    LET d == sourceFiles[1].switches[n].discriminant
        text == toLowerCase(IF d.type = "Identifier" THEN d.name
                            ELSE IF d.type = "MemberExpression"
                            THEN d.name \o <<".">> \o d.property
                            ELSE <<>>)
    IN  \E w \in {<<"s", "t", "a", "t", "e">>, <<"s", "t", "a", "t", "u", "s">>,
                  <<"p", "h", "a", "s", "e">>, <<"s", "t", "e", "p">>} :
            Includes(text, w)

\* the machines that must report state for switch n under the name machine:
\* those of that name that declare the state, do not see it handled, and
\* share a literal with the switch
MachinesOwing(n, state, machine) ==
    {k \in 1..Len(DeclaredStateFiles) :
        /\ NameOf(DeclaredStateFiles[k]) = machine
        /\ state \in SeqToSet(DeclaredStateFiles[k].states)
        /\ state \notin LiteralsOf(n)
        /\ SeqToSet(DeclaredStateFiles[k].states) \cap LiteralsOf(n) # {}
        /\ StateLikeSwitch(n)}

-----------------------------------------------------------------------------
(* C18: peerDependencies *)

\* the peerDependencies of the packages of the value returned
PeersOfValue ==
    UNION {{ManifestPeers(n)[i] : i \in 1..Len(ManifestPeers(n))} : n \in ValueNames}

\* C18: resolveDependencies never returns success with a resolved package one
\* of whose peerDependencies is absent from the catalog or installed at a
\* version outside its range.
C18_PeersCovered ==
    (rpc = "done" /\ outcome.ok) => \A peer \in PeersOfValue : Satisfied(peer)

-----------------------------------------------------------------------------
(* C19: a catalog that cannot be read *)

\* C19: when listInstalledSpecs fails, resolveDependencies returns an error
\* whose type is none of not-found, version-conflict and circular-dependency.
C19_UnreadableCatalogDistinct ==
    (rpc = "done" /\ listFails) =>
        /\ ~outcome.ok
        /\ outcome.error.type \notin {"not-found", "version-conflict", "circular-dependency"}

-----------------------------------------------------------------------------
(* C20: verifyL0 and the structural checks of loadSpecPackage *)

\* C20: for a directory both were run on, when loadSpecPackage does not
\* return the package, verifyL0 returns a result with at least one
\* error-severity issue; so when verifyL0 returns passed, loadSpecPackage
\* returns the package.
C20_L0CoversLoader ==
    (l0Result.ran /\ loadResult.ran) =>
        /\ ~loadResult.ok => (WasReturned(l0Result) /\ ErrorIssues(l0Result) # {})
        /\ (WasReturned(l0Result) /\ l0Result.passed) => loadResult.ok

-----------------------------------------------------------------------------
(* C21: the owner of a package *)

\* the user of the row of table packages
OwnerOf(name) == (CHOOSE row \in packages : row.name = name).owner

\* C21: a request whose handler found the package owned by another user is
\* answered 403, and every request answered 201 is of the owner of the package:
\* only the user who first published the package adds versions to it.
C21_OnlyOwnerPublishes ==
    \A i \in 1..Len(requests) :
        /\ (Finished(requests[i]) /\ requests[i].existing /\ OwnerOf(PackageName) # requests[i].user)
                => requests[i].status = 403
        /\ requests[i].status = 201 => OwnerOf(PackageName) = requests[i].user

-----------------------------------------------------------------------------
(* C22: a failed install *)

\* C22: when an install has ended without success (it returned an error or
\* threw), the package directory under .specpm/specs, specpm.yaml and
\* specpm-lock.yaml are as they were when the install started.
C22_FailedInstallRolledBack ==
    (installResult.done /\ ~installResult.ok) =>
        <<specsDir, projectManifest, lockfile>> = installBefore

-----------------------------------------------------------------------------
(* C23: installed specs are loaded once per project root *)

\* call k is a load of root that returned, and no clearSpecCache was called
\* between it and call n
LoadedBefore(n, root, k) ==
    /\ k < n
    /\ cacheLog[k].op = "load"
    /\ cacheLog[k].root = root
    /\ ~cacheLog[k].threw
    /\ \A j \in (k + 1)..(n - 1) : cacheLog[j].op # "clear"

-----------------------------------------------------------------------------
(* C24: the caret range *)

\* the left-most non-zero component of X.Y.Z, the patch when X = Y = 0
LeftMostNonZero(r) == IF r[1] > 0 THEN 1 ELSE IF r[2] > 0 THEN 2 ELSE 3

\* V >= X.Y.Z, major, minor and patch compared as integers
AtLeast(v, r) ==
    \/ v[1] > r[1]
    \/ v[1] = r[1] /\ v[2] > r[2]
    \/ v[1] = r[1] /\ v[2] = r[2] /\ v[3] >= r[3]

IsCaretRange(range) == \E p \in PlainVersions : range = <<"^">> \o p

CaretVersion(range) == parseSemVer(Tail(range)).v

\* C24: satisfiesRange(V, '^X.Y.Z') is true exactly when V >= X.Y.Z and V
\* equals X.Y.Z on every component up to and including the left-most non-zero
\* one of X, Y, Z (on all three when X = Y = 0).
C24_CaretLocksLeftMostNonZero ==
    (svResult \in {"true", "false"} /\ svVersion \in ValidVersions /\ IsCaretRange(svRange))
        => LET v == parseSemVer(svVersion).v
               r == CaretVersion(svRange)
           IN  svResult = "true"
                   <=> /\ AtLeast(v, r)
                       /\ \A i \in 1..LeftMostNonZero(r) : v[i] = r[i]

\* a 0.Y.Z caret range accepted a later patch of the same minor
C24_Witness ==
    /\ svResult = "true"
    /\ IsCaretRange(svRange)
    /\ CaretVersion(svRange)[1] = 0
    /\ CaretVersion(svRange)[2] > 0
    /\ parseSemVer(svVersion).v[3] > CaretVersion(svRange)[3]


-----------------------------------------------------------------------------
(* C25: concurrent publishes of one version *)

\* the requests for a version that were answered 201
Published(version) ==
    {i \in 1..Len(requests) : requests[i].version = version /\ requests[i].status = 201}

\* C25: under any interleaving of concurrent publish requests for the same
\* package and version, at most one request succeeds, and for every version
\* recorded in the registry the sha256 of the tarball stored on disk equals
\* the recorded integrity.
C25_OnePublishWinsIntegrityKept ==
    /\ \A v \in Versions : Cardinality(Published(v)) <= 1
    /\ \A row \in versions : Integrity(tarballs[row.version]) = row.integrity


-----------------------------------------------------------------------------
(* C26: what a passed CI run stands for *)

\* the installed list as the run's steps read it
CiListing == listInstalledSpecs(ciEnv.hasSpecsDir, ciEnv.dirs)

\* every installed spec directory was verified and passed
VerifyStepClean ==
    \A i \in 1..Len(ciEnv.dirs) :
        /\ \E j \in 1..Len(ciResult.verified) : ciResult.verified[j] = ciEnv.dirs[i].directory
        /\ ciEnv.dirs[i].l0Passes

\* checkCommand returned a report without a failure
CheckStepClean ==
    LET report == checkCommand(~CiListing.ok,
                               [i \in 1..Len(CiListing.value) |-> SpecPackageOf(CiListing.value[i])],
                               "", ciEnv.files)
    IN  /\ report.ok
        /\ report.summary.fail = 0
        /\ ciEnv.options.strict => report.summary.warn = 0

\* teamCheckCommand returned a result that passed
TeamStepClean ==
    LET teamResult == teamCheckCommand(ciEnv.team, CiListing, ciEnv.targets)
    IN  teamResult.ok /\ teamResult.passed

\* C26: ciCommand reports passed = true only if every enabled step (verify,
\* check, team) ran to completion and found no failure: a step whose command
\* returned an error never leaves the run reported as passed, and every
\* installed spec directory is verified.
C26_PassedMeansEveryStepClean ==
    (ciResult.ran /\ ciResult.ok /\ ciResult.passed)
        => /\ ciEnv.options.verify => (CiListing.ok /\ VerifyStepClean)
           /\ ciEnv.options.check => CheckStepClean
           /\ ciEnv.options.team => TeamStepClean


-----------------------------------------------------------------------------
(* C27: the walk order of the requirement maps *)

\* the (name, version) pairs of the list returned
ValuePairs == {<<outcome.value[i].name, outcome.value[i].version>> : i \in 1..Len(outcome.value)}

\* what the requirement graph alone says of a resolution: whether it can
\* succeed, and the pairs it then returns
GraphResolves == ~listFails /\ Acyclic /\ \A req \in Requirements : Satisfied(req)
GraphPairs == {<<n, installedSpecs[n].version>> : n \in Reachable}

\* the names of a requirement map in the order they are walked
WalkOrder(reqs) == [i \in 1..Len(reqs) |-> reqs[i].name]

\* C27: whether resolveDependencies succeeds, and the set of (name, version)
\* it returns on success, do not depend on the order in which the root
\* requirements or the dependencies of a manifest are walked: both are
\* functions of the requirement graph, in which no order appears.
C27_OrderIndependent ==
    rpc = "done" =>
        /\ outcome.ok <=> GraphResolves
        /\ outcome.ok => ValuePairs = GraphPairs

\* a diamond walked in reverse key order: the roots c and a, with a requiring
\* c and b, resolved to three packages
C27_Witness ==
    /\ rpc = "done"
    /\ outcome.ok
    /\ WalkOrder(rootDependencies) = <<"c", "a">>
    /\ WalkOrder(ManifestDeps("a")) = <<"c", "b">>
    /\ Len(outcome.value) = 3


-----------------------------------------------------------------------------
(* C28: the list returned is closed and consistent *)

\* the requirements the list returned has to meet: the root requirements and
\* the dependencies the manifest of every returned package declares
RequirementsOfValue ==
    {rootDependencies[i] : i \in 1..Len(rootDependencies)}
        \cup UNION {{installedSpecs[outcome.value[i].name].deps[j] :
                        j \in 1..Len(installedSpecs[outcome.value[i].name].deps)} :
                    i \in 1..Len(outcome.value)}

\* C28: on success the returned set is closed and consistent: every root
\* requirement and every dependency of every returned package names a
\* package of the returned set, at the version the catalog holds, and that
\* version satisfies the range of the requirement.
C28_ClosedAndConsistent ==
    (rpc = "done" /\ outcome.ok) =>
        \A req \in RequirementsOfValue :
            \E i \in 1..Len(outcome.value) :
                /\ outcome.value[i].name = req.name
                /\ installedSpecs[req.name].installed
                /\ outcome.value[i].version = installedSpecs[req.name].version
                /\ satisfiesRange(outcome.value[i].version, req.range)

\* a chain below a single root: a requires b, b requires c, under ranges
\* that are not all the same
C28_Witness ==
    /\ rpc = "done"
    /\ outcome.ok
    /\ Len(rootDependencies) = 1
    /\ Len(outcome.value) = 3
    /\ Cardinality({req.range : req \in RequirementsOfValue}) >= 2


-----------------------------------------------------------------------------
(* C29: the declarations of an entity are judged one by one *)

\* the passes the report holds for a constraint of a package in a file
PassesIn(pkg, id, path) ==
    {k \in 1..Len(ResultsOf(pkg, id)) :
        ResultsOf(pkg, id)[k].status = "pass" /\ ResultsOf(pkg, id)[k].file = path}

\* C29: the multiset of results checkEntity produces for a constraint does
\* not depend on the order of the source files or of the declarations in
\* them: the pass or fail outcome reported for a matching declaration is
\* determined by that declaration alone, so a declaration has its pass exactly
\* when it lacks no required field, whatever was checked before it.
C29_DeclarationJudgedAlone ==
    (checkResult.ran /\ checkResult.ok) =>
        \A i \in 1..Len(installed) : \A j \in 1..Len(installed[i].constraints) :
            LET spec == installed[i]
                c == spec.constraints[j]
                decls == MatchingInterfaces(sourceFiles, c.entity)
            IN  (spec.name \in SeqToSet(checkResult.specs) /\ c.type = "entity")
                => \A k \in 1..Len(decls) :
                        Cardinality(PassesIn(spec.name, c.id, decls[k].path))
                            = IF AbsentFields(c, spec.entities[1], decls[k].iface) = {} THEN 1 ELSE 0


-----------------------------------------------------------------------------
(* C30: resolveDependencies terminates *)

\* the calls of resolve() that walked the dependencies of a package
Entries(name) == {i \in 1..Len(examined) : examined[i].name = name /\ examined[i].kind = "enter"}

\* C30: resolveDependencies terminates on every finite catalog, catalogs with
\* dependency cycles and diamonds included, and walks the dependencies of
\* each package name at most once in a resolution.
C30_TerminatesOneWalkPerName ==
    /\ (rpc = "start") ~> (rpc = "done")
    /\ [](\A n \in Pkgs : Cardinality(Entries(n)) <= 1)

\* a resolution that met a package it had resolved (a diamond) and then a
\* cycle, and returned
C30_Witness ==
    /\ rpc = "done"
    /\ \E c \in Calls : c.kind = "memo"
    /\ ~outcome.ok
    /\ outcome.error.type = "circular-dependency"
    /\ \E n \in Pkgs : Cardinality(Entries(n)) = 1

====
